---- MODULE Spec2Model ----
(***************************************************************************)
(* A model of datacontract/imports/sql_importer.py: the SQL type mapping   *)
(* (map_type_from_sql, map_timestamp), the dialect lookups, the extraction *)
(* of a column's metadata, and import_sql populating a classic             *)
(* (DataContractSpecification) or an open (OpenDataContractStandard)       *)
(* contract object.                                                        *)
(*                                                                         *)
(* Python strings are TLA+ strings; TLC evaluates Len, SubSeq and \o on    *)
(* them, so lower(), strip(), startswith() and endswith() are computed     *)
(* character by character.                                                 *)
(***************************************************************************)
EXTENDS Integers, Sequences, FiniteSets, TLC

VARIABLES
    \* ---- one call of a pure mapping function (specification SpecMap)
    m_pc,          \* "call" before the function ran, "done" after, "off" when unused
    m_fn,          \* which function is called: "map_type_from_sql" or "map_timestamp"
    m_sql_type,    \* the argument sql_type / timestamp_type (a string, or None)
    m_dialect,     \* the argument dialect (a Dialects member name, or None)
    m_result,      \* the value returned
    \* ---- one resolution of a dialect and its lookups (specification SpecDialect)
    d_pc,          \* "call" before to_dialect ran, "resolved" after, "off" when unused
    d_args,        \* the argument import_args of to_dialect
    d_dialect,     \* the value to_dialect returned (a Dialects member name, or None)
    d_server_type, \* the value to_server_type returned for d_dialect, once called
    d_key,         \* the value to_physical_type_key returned for d_dialect, once called
    \* ---- one column definition going through extraction (specification SpecColumn)
    x_pc,          \* "call", "metadata", "field" or "property"; "off" when unused
    x_column,      \* the argument column (a ColumnDef node)
    x_dialect,     \* the argument dialect
    x_metadata,    \* the ColumnMetadata _extract_column_metadata returned
    x_field,       \* the Field _create_field built from x_metadata
    x_property,    \* the SchemaProperty _create_schema_property built from x_metadata
    \* ---- one SQL text going through the Teradata preprocessing (specification SpecText)
    t_pc,          \* "call", "once" after one pass, "twice" after two; "off" when unused
    t_lines,       \* how the text is laid out: its column lines, separator and ending
    t_sql,         \* the argument sql of _preprocess_teradata_sql
    t_once,        \* the text _preprocess_teradata_sql returned for t_sql
    t_twice,       \* the text _preprocess_teradata_sql returned for t_once
    \* ---- the contract object and import_sql's activation (specification Spec)
    shape,         \* "classic" (DataContractSpecification) or "open" (OpenDataContractStandard)
    servers,       \* classic: NoneObj or mapping tag -> Server; open: NoneObj or List of Server
    models,        \* classic: NoneObj or mapping table name -> Model; open: unused (NoneObj)
    schema_,       \* open: NoneObj or List of SchemaObject; classic: unused (NoneObj)
    pc,            \* position inside import_sql: "idle", "read_file", "parse", "populate"
    source,        \* argument source of the running call
    import_args,   \* argument import_args of the running call
    sql,           \* local sql: the document read from the file (after preprocessing)
    dialect,       \* local dialect
    parsed,        \* local parsed: the statement sqlglot.parse_one returned
    outcome,       \* how the last call ended: NoCall, Returned, or the exception raised
    \* ---- history (not program state): what the last call saw and did
    pre,           \* the contract's fields when the running / last call started
    trace,         \* the stages the running / last call has executed, in order
    n_calls,       \* number of import_sql calls started so far
    servers0,      \* the contract's servers when it was handed over (at Init)
    tag_log        \* the server tags recorded by the successful calls, in call order

m_vars == <<m_pc, m_fn, m_sql_type, m_dialect, m_result>>
d_vars == <<d_pc, d_args, d_dialect, d_server_type, d_key>>
x_vars == <<x_pc, x_column, x_dialect, x_metadata, x_field, x_property>>
t_vars == <<t_pc, t_lines, t_sql, t_once, t_twice>>
c_vars == <<shape, servers, models, schema_>>
i_vars == <<pc, source, import_args, sql, dialect, parsed, outcome>>
h_vars == <<pre, trace, n_calls, servers0, tag_log>>
vars == <<m_vars, d_vars, x_vars, t_vars, c_vars, i_vars, h_vars>>

(***************************************************************************)
(* Python values.                                                          *)
(***************************************************************************)
\* None where a string is expected (sql_type, dialect, a column's type): a
\* string that no input of the model spells.
None == "<None>"

\* None where a mapping or a list is expected (servers, models, schema_).
NoneObj == [none |-> TRUE]

\* A value where None is possible too (int | None, bool | None): Some(v), or
\* NoneObj for None.
Some(v) == [value |-> v]

\* A Python list holding the elements of seq, in order.
List(seq) == [items |-> seq]

\* An empty Python dict; a dict is the function from its keys to its values.
EmptyDict == [k \in {} |-> NoneObj]

(***************************************************************************)
(* str methods, computed on the characters.                                *)
(***************************************************************************)
UpperLetters == "ABCDEFGHIJKLMNOPQRSTUVWXYZ"

LowerLetters == "abcdefghijklmnopqrstuvwxyz"

CharAt(s, i) == SubSeq(s, i, i)

\* The lower-case letter of each upper-case letter.
LowerOf ==
    [c \in {CharAt(UpperLetters, i) : i \in 1..Len(UpperLetters)} |->
        CharAt(LowerLetters, CHOOSE i \in 1..Len(UpperLetters) : CharAt(UpperLetters, i) = c)]

\* The upper-case letter of each lower-case letter.
UpperOf ==
    [c \in {CharAt(LowerLetters, i) : i \in 1..Len(LowerLetters)} |->
        CharAt(UpperLetters, CHOOSE i \in 1..Len(LowerLetters) : CharAt(LowerLetters, i) = c)]

LowerChar(c) == IF c \in DOMAIN LowerOf THEN LowerOf[c] ELSE c

UpperChar(c) == IF c \in DOMAIN UpperOf THEN UpperOf[c] ELSE c

RECURSIVE Lower(_)
\* str.lower()
Lower(s) ==
    IF Len(s) = 0 THEN ""
    ELSE LowerChar(CharAt(s, 1)) \o Lower(SubSeq(s, 2, Len(s)))

RECURSIVE Upper(_)
\* str.upper()
Upper(s) ==
    IF Len(s) = 0 THEN ""
    ELSE UpperChar(CharAt(s, 1)) \o Upper(SubSeq(s, 2, Len(s)))

\* The characters str.strip() removes (ASCII whitespace).
IsSpace(c) == c \in {" ", "\t", "\n", "\r", "\f"}

RECURSIVE LStrip(_)
LStrip(s) ==
    IF Len(s) > 0 /\ IsSpace(CharAt(s, 1)) THEN LStrip(SubSeq(s, 2, Len(s))) ELSE s

RECURSIVE RStrip(_)
RStrip(s) ==
    IF Len(s) > 0 /\ IsSpace(CharAt(s, Len(s))) THEN RStrip(SubSeq(s, 1, Len(s) - 1)) ELSE s

\* str.strip()
Strip(s) == RStrip(LStrip(s))

\* str.startswith(p)
StartsWith(s, p) == Len(s) >= Len(p) /\ SubSeq(s, 1, Len(p)) = p

\* str.endswith(p)
EndsWith(s, p) == Len(s) >= Len(p) /\ SubSeq(s, Len(s) - Len(p) + 1, Len(s)) = p

(***************************************************************************)
(* The type mapping tables.                                                *)
(***************************************************************************)
EXACT_TYPE_MAP ==
    [k \in {"date", "time", "datetimeoffset", "uniqueidentifier", "json", "xml",
            "clob", "nclob", "blob", "bfile", "byte", "real", "number"} |->
        CASE k = "date" -> "date"
          [] k = "time" -> "string"
          [] k = "datetimeoffset" -> "timestamp_tz"
          [] k = "uniqueidentifier" -> "string"
          [] k = "json" -> "string"
          [] k = "xml" -> "string"
          [] k = "clob" -> "text"
          [] k = "nclob" -> "text"
          [] k = "blob" -> "bytes"
          [] k = "bfile" -> "bytes"
          [] k = "byte" -> "bytes"
          [] k = "real" -> "float"
          [] k = "number" -> "number"]

\* The table with "int" moved before "integer": the order bug the comment on
\* PREFIX_TYPE_MAP warns against.
PREFIX_TYPE_MAP_IntFirst ==
    << <<"bigint", "long">>, <<"tinyint", "int">>, <<"smallint", "int">>,
       <<"int", "int">>, <<"integer", "int">>,
       <<"nvarchar", "string">>, <<"varchar", "string">>, <<"nchar", "string">>,
       <<"ntext", "string">>, <<"char", "string">>, <<"text", "string">>,
       <<"string", "string">>, <<"varbinary", "bytes">>, <<"binary", "bytes">>,
       <<"raw", "bytes">>, <<"double", "double">>, <<"float", "float">>,
       <<"numeric", "decimal">>, <<"decimal", "decimal">>, <<"bool", "boolean">>,
       <<"bit", "boolean">>, <<"timestamp", "timestamp">> >>

PREFIX_TYPE_MAP ==
    << <<"bigint", "long">>, <<"tinyint", "int">>, <<"smallint", "int">>,
       <<"integer", "int">>, <<"int", "int">>,
       <<"nvarchar", "string">>, <<"varchar", "string">>, <<"nchar", "string">>,
       <<"ntext", "string">>, <<"char", "string">>, <<"text", "string">>,
       <<"string", "string">>, <<"varbinary", "bytes">>, <<"binary", "bytes">>,
       <<"raw", "bytes">>, <<"double", "double">>, <<"float", "float">>,
       <<"numeric", "decimal">>, <<"decimal", "decimal">>, <<"bool", "boolean">>,
       <<"bit", "boolean">>, <<"timestamp", "timestamp">> >>

\* `for prefix, target_type in PREFIX_TYPE_MAP: if s.startswith(prefix)`: the
\* index of the first entry whose prefix s starts with, 0 when the loop ends
\* without a match.
FirstPrefixMatch(s) ==
    LET hits == {i \in 1..Len(PREFIX_TYPE_MAP) : StartsWith(s, PREFIX_TYPE_MAP[i][1])}
    IN IF hits = {} THEN 0 ELSE CHOOSE i \in hits : \A j \in hits : i <= j

\* map_timestamp without the case for strings starting with "timestampltz".
map_timestamp_NoLtz(timestamp_type) ==
    IF timestamp_type \in {"timestamp", "timestampntz", "timestamp_ntz"} THEN "timestamp_ntz"
    ELSE IF timestamp_type \in {"timestamptz", "timestamp_tz", "timestamp with time zone"}
        THEN "timestamp_tz"
    ELSE IF EndsWith(timestamp_type, "time zone") THEN "timestamp_tz"
    ELSE "timestamp_ntz"

\* The match statement of map_timestamp, case by case in order.
map_timestamp(timestamp_type) ==
    IF timestamp_type \in {"timestamp", "timestampntz", "timestamp_ntz"} THEN "timestamp_ntz"
    ELSE IF timestamp_type \in {"timestamptz", "timestamp_tz", "timestamp with time zone"}
        THEN "timestamp_tz"
    ELSE IF StartsWith(timestamp_type, "timestampltz") THEN "timestamp_tz"
    ELSE IF EndsWith(timestamp_type, "time zone") THEN "timestamp_tz"
    ELSE "timestamp_ntz"

\* The rules after the INTERVAL check, returning the table's target type for
\* the "timestamp" prefix instead of delegating to map_timestamp.
MapNormalized_RawTarget(sql_type_normed, d) ==
    IF sql_type_normed = "decimal" /\ d = "TERADATA" THEN "number"
    ELSE IF sql_type_normed \in DOMAIN EXACT_TYPE_MAP THEN EXACT_TYPE_MAP[sql_type_normed]
    ELSE LET i == FirstPrefixMatch(sql_type_normed)
         IN IF i # 0
            THEN PREFIX_TYPE_MAP[i][2]
            ELSE IF sql_type_normed \in {"datetime", "datetime2", "smalldatetime"}
                 THEN "timestamp_ntz"
                 ELSE "variant"

\* The rules after the INTERVAL check, with the Teradata rule testing
\* startswith("decimal") instead of equality.
MapNormalized_TeradataPrefix(sql_type_normed, d) ==
    IF StartsWith(sql_type_normed, "decimal") /\ d = "TERADATA" THEN "number"
    ELSE IF sql_type_normed \in DOMAIN EXACT_TYPE_MAP THEN EXACT_TYPE_MAP[sql_type_normed]
    ELSE LET i == FirstPrefixMatch(sql_type_normed)
         IN IF i # 0
            THEN IF PREFIX_TYPE_MAP[i][1] = "timestamp"
                 THEN map_timestamp(sql_type_normed)
                 ELSE PREFIX_TYPE_MAP[i][2]
            ELSE IF sql_type_normed \in {"datetime", "datetime2", "smalldatetime"}
                 THEN "timestamp_ntz"
                 ELSE "variant"

\* The rules with the Teradata exception extended to bare NUMERIC.
MapNormalized_TeradataNumeric(sql_type_normed, d) ==
    IF sql_type_normed \in {"decimal", "numeric"} /\ d = "TERADATA" THEN "number"
    ELSE IF sql_type_normed \in DOMAIN EXACT_TYPE_MAP THEN EXACT_TYPE_MAP[sql_type_normed]
    ELSE LET i == FirstPrefixMatch(sql_type_normed)
         IN IF i # 0
            THEN IF PREFIX_TYPE_MAP[i][1] = "timestamp"
                 THEN map_timestamp(sql_type_normed)
                 ELSE PREFIX_TYPE_MAP[i][2]
            ELSE IF sql_type_normed \in {"datetime", "datetime2", "smalldatetime"}
                 THEN "timestamp_ntz"
                 ELSE "variant"

\* The rules of map_type_from_sql that follow the INTERVAL check, on the
\* normalized string.
MapNormalized(sql_type_normed, d) ==
    IF sql_type_normed = "decimal" /\ d = "TERADATA" THEN "number"
    ELSE IF sql_type_normed \in DOMAIN EXACT_TYPE_MAP THEN EXACT_TYPE_MAP[sql_type_normed]
    ELSE LET i == FirstPrefixMatch(sql_type_normed)
         IN IF i # 0
            THEN IF PREFIX_TYPE_MAP[i][1] = "timestamp"
                 THEN map_timestamp(sql_type_normed)
                 ELSE PREFIX_TYPE_MAP[i][2]
            ELSE IF sql_type_normed \in {"datetime", "datetime2", "smalldatetime"}
                 THEN "timestamp_ntz"
                 ELSE "variant"

\* map_type_from_sql without the INTERVAL check that precedes the tables.
map_type_from_sql_NoInterval(sql_type, d) ==
    IF sql_type = None THEN "variant"
    ELSE MapNormalized(Strip(Lower(sql_type)), d)

\* map_type_from_sql with the lower-casing left out of the normalisation.
map_type_from_sql_NoLower(sql_type, d) ==
    IF sql_type = None THEN "variant"
    ELSE LET sql_type_normed == Strip(sql_type)
         IN  IF StartsWith(sql_type_normed, "interval") THEN "variant"
             ELSE MapNormalized(sql_type_normed, d)

map_type_from_sql(sql_type, d) ==
    IF sql_type = None THEN "variant"
    ELSE LET sql_type_normed == Strip(Lower(sql_type))
         IN IF StartsWith(sql_type_normed, "interval") THEN "variant"
            ELSE MapNormalized(sql_type_normed, d)

(***************************************************************************)
(* Dialects.                                                               *)
(***************************************************************************)
\* The member names of sqlglot's Dialects enum (Dialects.__members__); a
\* dialect value is its member name, None when there is no dialect.
DialectsMembers ==
    {"DIALECT", "ATHENA", "BIGQUERY", "CLICKHOUSE", "DATABRICKS", "DORIS", "DRILL",
     "DUCKDB", "HIVE", "MATERIALIZE", "MYSQL", "ORACLE", "POSTGRES", "PRESTO",
     "PRQL", "REDSHIFT", "RISINGWAVE", "SNOWFLAKE", "SPARK", "SPARK2", "SQLITE",
     "STARROCKS", "TABLEAU", "TERADATA", "TRINO", "TSQL"}

DIALECT_CONFIG ==
    [d \in {"TSQL", "POSTGRES", "BIGQUERY", "SNOWFLAKE", "REDSHIFT", "ORACLE",
            "MYSQL", "DATABRICKS", "TERADATA"} |->
        CASE d = "TSQL" -> [server |-> "sqlserver", physical_type |-> "sqlserverType"]
          [] d = "POSTGRES" -> [server |-> "postgres", physical_type |-> "postgresType"]
          [] d = "BIGQUERY" -> [server |-> "bigquery", physical_type |-> "bigqueryType"]
          [] d = "SNOWFLAKE" -> [server |-> "snowflake", physical_type |-> "snowflakeType"]
          [] d = "REDSHIFT" -> [server |-> "redshift", physical_type |-> "redshiftType"]
          [] d = "ORACLE" -> [server |-> "oracle", physical_type |-> "oracleType"]
          [] d = "MYSQL" -> [server |-> "mysql", physical_type |-> "mysqlType"]
          [] d = "DATABRICKS" -> [server |-> "databricks", physical_type |-> "databricksType"]
          [] d = "TERADATA" -> [server |-> "teradata", physical_type |-> "teradataType"]]

\* to_dialect handing back the upper-cased name whether or not it is a member.
to_dialect_AnyName(args) ==
    IF args = NoneObj \/ DOMAIN args = {} \/ "dialect" \notin DOMAIN args THEN None
    ELSE LET d == args["dialect"]
         IN IF d = "sqlserver" THEN "TSQL" ELSE Upper(d)

\* to_dialect: import_args is None or a dict (a function from its keys).
to_dialect(args) ==
    IF args = NoneObj \/ DOMAIN args = {} \/ "dialect" \notin DOMAIN args THEN None
    ELSE LET d == args["dialect"]
         IN IF d = "sqlserver" THEN "TSQL"
            ELSE IF Upper(d) \in DialectsMembers THEN Upper(d)
            ELSE None

\* Dialects is a str enum: the value of a member is its name in lower case,
\* except DIALECT, whose value is the empty string.
DialectValue(d) == IF d = "DIALECT" THEN "" ELSE Lower(d)

\* to_physical_type_key: a Dialects member is a str, so it is looked up again
\* by its upper-cased value before the table is consulted.
to_physical_type_key(d) ==
    LET again == IF d = None THEN None
                 ELSE IF Upper(DialectValue(d)) \in DialectsMembers
                      THEN Upper(DialectValue(d))
                      ELSE None
    IN IF again = None THEN "physicalType"
       ELSE IF again \in DOMAIN DIALECT_CONFIG THEN DIALECT_CONFIG[again].physical_type
       ELSE "physicalType"

\* to_server_type answering with the lower-cased member name, no table consulted.
to_server_type_MemberName(src, d) ==
    IF d = None THEN None ELSE Lower(d)

to_server_type(src, d) ==
    IF d = None THEN None
    ELSE IF d \in DOMAIN DIALECT_CONFIG THEN DIALECT_CONFIG[d].server
    ELSE None

(***************************************************************************)
(* SQL sources.  The SQL parser is an external library: a file's content   *)
(* is modelled by what the parser makes of it, a list of statements or a   *)
(* syntax error.  A column definition is the ColumnDef node the parser     *)
(* builds: its name, its type node (kind), its constraints, its attached   *)
(* comments and its parent, and whether its line matches                   *)
(* TERADATA_INTERVAL_PATTERN.                                              *)
(***************************************************************************)
\* A DataType node: `this` is the name of its type (None when the node has
\* none), params the names of the DataTypeParam nodes found below it, in
\* find_all order, and sql the text kind.sql(dialect) generates for it.
DataType(this, params, text) == [this |-> this, params |-> params, sql |-> text]

RECURSIVE JoinWith(_, _)
\* sep.join(strs)
JoinWith(sep, strs) ==
    IF strs = <<>> THEN ""
    ELSE IF Len(strs) = 1 THEN strs[1]
    ELSE strs[1] \o sep \o JoinWith(sep, Tail(strs))

\* The type NAME or NAME(p1, p2, ...) as the parser reads and generates it.
Type(this, params) ==
    DataType(this, params,
             IF params = <<>> THEN this ELSE this \o "(" \o JoinWith(", ", params) \o ")")

\* A column constraint, by the class of its kind node.
Constraint(class) == [kind |-> class, allow_null |-> FALSE, this |-> ""]

\* PRIMARY KEY on a column.
PrimaryKeyColumnConstraint == Constraint("PrimaryKeyColumnConstraint")

\* A PrimaryKey node below a column definition.
PrimaryKey == Constraint("PrimaryKey")

\* NOT NULL on a column.  The parser builds a node of the same class, with
\* allow_null set, for a column declared NULL.
NotNullColumnConstraint(allow_null) ==
    [Constraint("NotNullColumnConstraint") EXCEPT !.allow_null = allow_null]

\* UNIQUE on a column.
UniqueColumnConstraint == Constraint("UniqueColumnConstraint")

\* COMMENT 'text' on a column.
CommentColumnConstraint(text) == [Constraint("CommentColumnConstraint") EXCEPT !.this = text]

\* A ColumnDef node outside any statement (no parent).
ColumnDef(n, k, constraints) ==
    [name |-> n, kind |-> k, constraints |-> constraints, comments |-> NoneObj,
     parent |-> NoneObj, interval_line |-> FALSE]

Col(n, k) == ColumnDef(n, k, <<>>)

IntervalCol(n, k) == [Col(n, k) EXCEPT !.interval_line = TRUE]

\* The Schema node a column definition hangs under: primary_keys holds, for
\* each table-level PRIMARY KEY (...) of the table, the names it lists.
Schema(pks) == [primary_keys |-> pks]

\* CREATE TABLE name (columns, PRIMARY KEY (...), ...): a Create of kind TABLE
\* whose `this` is a Schema, the parent of every column definition.
CreateTableWithKeys(n, cols, pks) ==
    [stmt |-> "Create", kind |-> "TABLE", has_schema |-> TRUE, name |-> n,
     columns |-> [i \in 1..Len(cols) |-> [cols[i] EXCEPT !.parent = Schema(pks)]]]

\* CREATE TABLE name (columns)
CreateTable(n, cols) == CreateTableWithKeys(n, cols, <<>>)

\* CREATE TABLE name AS SELECT ...: a Create of kind TABLE whose `this` is a Table.
CreateTableAs(n) ==
    [stmt |-> "Create", kind |-> "TABLE", has_schema |-> FALSE, name |-> n, columns |-> <<>>]

\* CREATE VIEW name (columns) AS ...: a Create of another kind.
CreateView(n, cols) ==
    [stmt |-> "Create", kind |-> "VIEW", has_schema |-> TRUE, name |-> n,
     columns |-> [i \in 1..Len(cols) |-> [cols[i] EXCEPT !.parent = Schema(<<>>)]]]

\* Any statement that holds no Create node (SELECT, DROP TABLE, ...).
OtherStatement(what) ==
    [stmt |-> what, kind |-> "", has_schema |-> FALSE, name |-> "", columns |-> <<>>]

ValidSql(stmts) == [valid |-> TRUE, error |-> "", statements |-> stmts]

InvalidSql(msg) == [valid |-> FALSE, error |-> msg, statements |-> <<>>]

\* CREATE TABLE Users (id INT PRIMARY KEY, name VARCHAR(100))
UsersTable ==
    CreateTable("Users",
        <<ColumnDef("id", Type("INT", <<>>), <<PrimaryKeyColumnConstraint>>),
          Col("name", Type("VARCHAR", <<"100">>))>>)

\* CREATE TABLE orders (order_id BIGINT NOT NULL, amount DECIMAL(10, 2),
\*                      note TEXT NULL, qty NUMERIC(5), PRIMARY KEY (order_id))
OrdersTable ==
    CreateTableWithKeys("orders",
        <<ColumnDef("order_id", Type("BIGINT", <<>>), <<NotNullColumnConstraint(FALSE)>>),
          Col("amount", Type("DECIMAL", <<"10", "2">>)),
          ColumnDef("note", Type("TEXT", <<>>), <<NotNullColumnConstraint(TRUE)>>),
          Col("qty", Type("NUMERIC", <<"5">>))>>,
        <<<<"order_id">>>>)

ContractsTable ==
    CreateTable("contracts",
        <<Col("contract_id", Type("INT", <<>>)),
          IntervalCol("duration",
                      DataType("INTERVAL", <<>>, "INTERVAL YEAR(2) TO MONTH")),
          Col("start_date", Type("DATE", <<>>))>>)

\* CREATE TABLE USERS (id INT, email VARCHAR(255), id BIGINT): the users table
\* again, in other letters, with other columns and a column name used twice.
UsersTableAgain ==
    CreateTable("USERS",
        <<Col("id", Type("INT", <<>>)),
          Col("email", Type("VARCHAR", <<"255">>)),
          Col("id", Type("BIGINT", <<>>))>>)

MissingPath == "/nonexistent/file.sql"

\* The files that exist, by path.
Files ==
    [p \in {"users.sql", "orders.sql", "multi.sql", "drop_create.sql", "select.sql",
            "contracts.sql", "invalid.sql", "empty.sql", "view_ctas.sql"} |->
        CASE p = "users.sql" -> ValidSql(<<UsersTable>>)
          [] p = "orders.sql" -> ValidSql(<<OrdersTable>>)
          [] p = "multi.sql" -> ValidSql(<<UsersTableAgain, OrdersTable>>)
          [] p = "drop_create.sql" ->
                ValidSql(<<OtherStatement("Drop"), UsersTable, OrdersTable>>)
          [] p = "select.sql" -> ValidSql(<<OtherStatement("Select")>>)
          [] p = "contracts.sql" -> ValidSql(<<ContractsTable>>)
          [] p = "invalid.sql" -> InvalidSql("Invalid expression / Unexpected token.")
          [] p = "empty.sql" -> ValidSql(<<>>)
          [] p = "view_ctas.sql" ->
                ValidSql(<<CreateTableAs("Copy"), CreateView("v", <<Col("id", Type("INT", <<>>))>>)>>)]

SourceInputs == DOMAIN Files \cup {MissingPath}

\* import_args: None, an empty dict, a dict without the dialect key, and
\* dicts naming a dialect.
ImportArgsInputs ==
    {NoneObj, EmptyDict, [format |-> "sql"]}
    \cup {[dialect |-> d] : d \in {"postgres", "sqlserver", "Teradata", "duckdb", "nosuchdialect"}}

\* Number of import_sql calls made on the contract object.
MaxCalls == 2

(***************************************************************************)
(* import_sql and its helpers.                                             *)
(***************************************************************************)
\* pathlib.Path(path).exists()
Exists(path) == path \in DOMAIN Files

\* The DataContractException read_file raises for a missing file.
FileNotFound(path) ==
    [raised |-> "DataContractException", type |-> "import",
     name |-> "Reading source from " \o path,
     reason |-> "The file '" \o path \o "' does not exist.",
     engine |-> "datacontract", result |-> "error"]

\* The DataContractException import_sql raises for an exception e of the try block.
ParseFailed(src, e) ==
    [raised |-> "DataContractException", type |-> "import",
     name |-> "Reading source from " \o src,
     reason |-> "Error parsing SQL: " \o e,
     engine |-> "datacontract", result |-> "error"]

NoCall == [raised |-> "", returned |-> FALSE]

Returned == [raised |-> "", returned |-> TRUE]

\* The column definitions that do not match TERADATA_INTERVAL_PATTERN, in order.
RECURSIVE KeepColumns(_)
KeepColumns(cols) ==
    IF cols = <<>> THEN <<>>
    ELSE IF Head(cols).interval_line THEN KeepColumns(Tail(cols))
    ELSE <<Head(cols)>> \o KeepColumns(Tail(cols))

\* _preprocess_teradata_sql: every line matching TERADATA_INTERVAL_PATTERN is
\* removed from the text, in every statement; _cleanup_teradata_sql repairs
\* the commas, so the remaining column definitions parse as before.
preprocess_teradata_sql(doc) ==
    [doc EXCEPT !.statements =
        [i \in 1..Len(doc.statements) |->
            [doc.statements[i] EXCEPT !.columns = KeepColumns(@)]]]

\* The text has a Teradata INTERVAL column definition left in it.
HasIntervalLine(doc) ==
    \E i \in 1..Len(doc.statements) :
        \E j \in 1..Len(doc.statements[i].columns) : doc.statements[i].columns[j].interval_line

\* sqlglot.parse_one(sql, read=dialect): an error message when the parser
\* rejects the text or finds no statement, and "" when it accepts it.  The
\* Teradata parser cannot parse INTERVAL ... TO ... column definitions.
ParseError(doc, d) ==
    IF ~doc.valid THEN doc.error
    ELSE IF doc.statements = <<>> THEN "No expression was parsed from ''"
    ELSE IF d = "TERADATA" /\ HasIntervalLine(doc)
        THEN "Invalid expression / Unexpected token."
    ELSE ""

\* parse_one returns the first statement only.
parse_one(doc) == doc.statements[1]

\* next((c for c in parsed.find_all(Create) if c.kind == "TABLE"), None): the
\* parsed statement itself when it is a CREATE TABLE, else nothing.
FirstCreateTable(stmt) ==
    IF stmt.stmt = "Create" /\ stmt.kind = "TABLE" THEN stmt ELSE NoneObj

\* column.find(class) is not None
Find(column, class) ==
    \E i \in 1..Len(column.constraints) : column.constraints[i].kind = class

\* get_primary_key answering False where the code answers None.
get_primary_key_FalseWhenAbsent(column) ==
    IF Find(column, "PrimaryKeyColumnConstraint") THEN Some(TRUE)
    ELSE IF Find(column, "PrimaryKey") THEN Some(TRUE)
    ELSE IF /\ column.parent # NoneObj
            /\ \E i \in 1..Len(column.parent.primary_keys) :
                  \E j \in 1..Len(column.parent.primary_keys[i]) :
                      column.parent.primary_keys[i][j] = column.name
        THEN Some(TRUE)
    ELSE Some(FALSE)

\* get_primary_key: True or None.
get_primary_key(column) ==
    IF Find(column, "PrimaryKeyColumnConstraint") THEN Some(TRUE)
    ELSE IF Find(column, "PrimaryKey") THEN Some(TRUE)
    ELSE IF /\ column.parent # NoneObj
            /\ \E i \in 1..Len(column.parent.primary_keys) :
                  \E j \in 1..Len(column.parent.primary_keys[i]) :
                      column.parent.primary_keys[i][j] = column.name
        THEN Some(TRUE)
    ELSE NoneObj

\* _get_col_kind
get_col_kind(column) == column.kind

\* to_col_type: the text generated for the type node, None without one.
to_col_type(column, d) ==
    IF get_col_kind(column) = NoneObj THEN None ELSE get_col_kind(column).sql

\* to_col_type_normalized: the lower-cased name of the type, None without one.
to_col_type_normalized(column) ==
    LET col_type == get_col_kind(column)
    IN  IF col_type = NoneObj THEN None
        ELSE IF col_type.this = None THEN None
        ELSE IF col_type.this = "" THEN None
        ELSE Lower(col_type.this)

Digits == <<"0", "1", "2", "3", "4", "5", "6", "7", "8", "9">>

\* str.isdigit() (ASCII digits)
IsDigit(s) ==
    Len(s) > 0 /\ \A i \in 1..Len(s) : \E v \in 0..9 : Digits[v + 1] = CharAt(s, i)

RECURSIVE ToInt(_)
\* int(s) for a string of digits
ToInt(s) ==
    IF Len(s) = 0 THEN 0
    ELSE ToInt(SubSeq(s, 1, Len(s) - 1)) * 10
         + (CHOOSE v \in 0..9 : Digits[v + 1] = CharAt(s, Len(s)))

\* get_description preferring the attached comments.
get_description_CommentsFirst(column) ==
    IF column.comments # NoneObj
    THEN JoinWith(" ", [i \in 1..Len(column.comments.items) |-> Strip(column.comments.items[i])])
    ELSE IF Find(column, "CommentColumnConstraint")
    THEN LET first == CHOOSE i \in 1..Len(column.constraints) :
                          column.constraints[i].kind = "CommentColumnConstraint"
         IN  column.constraints[first].this
    ELSE None

\* get_description
get_description(column) ==
    IF Find(column, "CommentColumnConstraint")
    THEN LET first == CHOOSE i \in 1..Len(column.constraints) :
                          /\ column.constraints[i].kind = "CommentColumnConstraint"
                          /\ \A j \in 1..(i - 1) :
                                column.constraints[j].kind # "CommentColumnConstraint"
         IN  column.constraints[first].this
    ELSE IF column.comments = NoneObj THEN None
    ELSE JoinWith(" ", [i \in 1..Len(column.comments.items) |-> Strip(column.comments.items[i])])

\* get_max_length taking the last parameter.
get_max_length_LastParam(column) ==
    LET col_type == to_col_type_normalized(column)
    IN  IF col_type = None THEN NoneObj
        ELSE IF col_type \notin {"varchar", "char", "nvarchar", "nchar"} THEN NoneObj
        ELSE IF get_col_kind(column) = NoneObj THEN NoneObj
        ELSE LET col_params == get_col_kind(column).params
             IN  IF Len(col_params) = 0 THEN NoneObj
                 ELSE IF IsDigit(col_params[Len(col_params)])
                      THEN Some(ToInt(col_params[Len(col_params)]))
                 ELSE NoneObj

\* get_max_length
get_max_length(column) ==
    LET col_type == to_col_type_normalized(column)
    IN  IF col_type = None THEN NoneObj
        ELSE IF col_type \notin {"varchar", "char", "nvarchar", "nchar"} THEN NoneObj
        ELSE IF get_col_kind(column) = NoneObj THEN NoneObj
        ELSE LET col_params == get_col_kind(column).params
             IN  IF Len(col_params) = 0 THEN NoneObj
                 ELSE IF IsDigit(col_params[1]) THEN Some(ToInt(col_params[1]))
                 ELSE NoneObj

\* get_precision_scale reading the parameters of a type of any name.
get_precision_scale_AnyType(column) ==
    LET col_type == to_col_type_normalized(column)
    IN  IF col_type = None THEN <<NoneObj, NoneObj>>
        ELSE IF get_col_kind(column) = NoneObj THEN <<NoneObj, NoneObj>>
        ELSE LET col_params == get_col_kind(column).params
             IN  IF Len(col_params) = 0 THEN <<NoneObj, NoneObj>>
                 ELSE IF Len(col_params) = 1
                      THEN IF ~IsDigit(col_params[1]) THEN <<NoneObj, NoneObj>>
                           ELSE <<Some(ToInt(col_params[1])), Some(0)>>
                 ELSE IF Len(col_params) = 2
                      THEN IF ~IsDigit(col_params[1]) \/ ~IsDigit(col_params[2])
                           THEN <<NoneObj, NoneObj>>
                           ELSE <<Some(ToInt(col_params[1])), Some(ToInt(col_params[2]))>>
                 ELSE <<NoneObj, NoneObj>>

\* get_precision_scale leaving the scale out when one parameter is given.
get_precision_scale_NoScale(column) ==
    LET col_type == to_col_type_normalized(column)
    IN  IF col_type = None THEN <<NoneObj, NoneObj>>
        ELSE IF col_type \notin {"decimal", "numeric", "float", "number"}
             THEN <<NoneObj, NoneObj>>
        ELSE IF get_col_kind(column) = NoneObj THEN <<NoneObj, NoneObj>>
        ELSE LET col_params == get_col_kind(column).params
             IN  IF Len(col_params) = 0 THEN <<NoneObj, NoneObj>>
                 ELSE IF Len(col_params) = 1
                      THEN IF ~IsDigit(col_params[1]) THEN <<NoneObj, NoneObj>>
                           ELSE <<Some(ToInt(col_params[1])), NoneObj>>
                 ELSE IF Len(col_params) = 2
                      THEN IF ~IsDigit(col_params[1]) \/ ~IsDigit(col_params[2])
                           THEN <<NoneObj, NoneObj>>
                           ELSE <<Some(ToInt(col_params[1])), Some(ToInt(col_params[2]))>>
                 ELSE <<NoneObj, NoneObj>>

\* get_precision_scale: the pair (precision, scale)
get_precision_scale(column) ==
    LET col_type == to_col_type_normalized(column)
    IN  IF col_type = None THEN <<NoneObj, NoneObj>>
        ELSE IF col_type \notin {"decimal", "numeric", "float", "number"}
             THEN <<NoneObj, NoneObj>>
        ELSE IF get_col_kind(column) = NoneObj THEN <<NoneObj, NoneObj>>
        ELSE LET col_params == get_col_kind(column).params
             IN  IF Len(col_params) = 0 THEN <<NoneObj, NoneObj>>
                 ELSE IF Len(col_params) = 1
                      THEN IF ~IsDigit(col_params[1]) THEN <<NoneObj, NoneObj>>
                           ELSE <<Some(ToInt(col_params[1])), Some(0)>>
                 ELSE IF Len(col_params) = 2
                      THEN IF ~IsDigit(col_params[1]) \/ ~IsDigit(col_params[2])
                           THEN <<NoneObj, NoneObj>>
                           ELSE <<Some(ToInt(col_params[1])), Some(ToInt(col_params[2]))>>
                 ELSE <<NoneObj, NoneObj>>

\* _extract_column_metadata: the ColumnMetadata of a column definition.
extract_column_metadata(column, d) ==
    LET col_type == to_col_type(column, d)
        precision_scale == get_precision_scale(column)
    IN  [name |-> column.name,
         logical_type |-> map_type_from_sql(col_type, d),
         physical_type |-> col_type,
         description |-> get_description(column),
         max_length |-> get_max_length(column),
         precision |-> precision_scale[1],
         scale |-> precision_scale[2],
         is_primary_key |-> get_primary_key(column),
         is_required |-> Find(column, "NotNullColumnConstraint")]

\* _extract_table_metadata: (table_name, columns)
extract_table_metadata(create, d) ==
    IF ~create.has_schema THEN <<"", <<>>>>
    ELSE <<Lower(create.name),
           [i \in 1..Len(create.columns) |-> extract_column_metadata(create.columns[i], d)]>>

\* _create_field storing the physical type under the generic key always.
create_field_GenericKey(metadata, d) ==
    [type |-> metadata.logical_type,
     description |-> metadata.description,
     maxLength |-> metadata.max_length,
     precision |-> metadata.precision,
     scale |-> metadata.scale,
     primaryKey |-> metadata.is_primary_key,
     required |-> IF metadata.is_required THEN Some(TRUE) ELSE NoneObj,
     config |-> "physicalType" :> metadata.physical_type]

\* _create_field: a Field has required None until it is assigned.
create_field(metadata, d) ==
    [type |-> metadata.logical_type,
     description |-> metadata.description,
     maxLength |-> metadata.max_length,
     precision |-> metadata.precision,
     scale |-> metadata.scale,
     primaryKey |-> metadata.is_primary_key,
     required |-> IF metadata.is_required THEN Some(TRUE) ELSE NoneObj,
     config |-> to_physical_type_key(d) :> metadata.physical_type]

\* _populate_logical_type_options_from_metadata keeping the truthy options only.
logical_type_options_Truthy(metadata) ==
    LET options == [k \in {"maxLength", "precision", "scale"} |->
                       IF k = "maxLength" THEN metadata.max_length
                       ELSE IF k = "precision" THEN metadata.precision
                       ELSE metadata.scale]
        present == {k \in DOMAIN options : options[k] # NoneObj /\ options[k] # Some(0)}
    IN  IF present = {} THEN NoneObj
        ELSE [k \in present |-> options[k].value]

\* _populate_logical_type_options_from_metadata: the options that are not
\* None, and nothing (logicalTypeOptions stays None) when there is none.
logical_type_options(metadata) ==
    LET options == [k \in {"maxLength", "precision", "scale"} |->
                       IF k = "maxLength" THEN metadata.max_length
                       ELSE IF k = "precision" THEN metadata.precision
                       ELSE metadata.scale]
        present == {k \in DOMAIN options : options[k] # NoneObj}
    IN  IF present = {} THEN NoneObj
        ELSE [k \in present |-> options[k].value]

\* _create_schema_property: description, primaryKey and required stay None
\* unless the metadata has them truthy.
create_schema_property(metadata) ==
    [name |-> metadata.name,
     logicalType |-> metadata.logical_type,
     physicalType |-> metadata.physical_type,
     description |-> IF metadata.description \notin {None, ""}
                     THEN metadata.description ELSE None,
     primaryKey |-> IF metadata.is_primary_key = Some(TRUE) THEN Some(TRUE) ELSE NoneObj,
     required |-> IF metadata.is_required THEN Some(TRUE) ELSE NoneObj,
     logicalTypeOptions |-> logical_type_options(metadata)]

\* {metadata.name: _create_field(metadata, dialect) for metadata in columns}:
\* a later column of the same name replaces an earlier one.
FieldsOf(columns, d) ==
    [n \in {columns[i].name : i \in 1..Len(columns)} |->
        LET last == CHOOSE i \in 1..Len(columns) :
                        /\ columns[i].name = n
                        /\ \A j \in 1..Len(columns) : columns[j].name = n => j <= i
        IN create_field(columns[last], d)]

\* mapping[key] = value on a dict
Put(mapping, key, value) ==
    [k \in DOMAIN mapping \cup {key} |-> IF k = key THEN value ELSE mapping[k]]

\* _populate_dcs_from_sql setting the server entry only when the contract has
\* no servers mapping yet.
DcsServers_OnlyWhenNone(old, server_type) ==
    IF server_type = None THEN old
    ELSE IF old = NoneObj THEN Put(EmptyDict, server_type, [type |-> server_type])
    ELSE old

\* _populate_dcs_from_sql, the servers mapping it leaves.
DcsServers(old, server_type) ==
    IF server_type = None THEN old
    ELSE Put(IF old = NoneObj THEN EmptyDict ELSE old, server_type, [type |-> server_type])

\* _populate_dcs_from_sql adding the fields to those of a model it finds
\* under the table name.
DcsModels_MergeFields(old, stmt, d) ==
    LET base == IF old = NoneObj THEN EmptyDict ELSE old
        create == FirstCreateTable(stmt)
    IN IF create = NoneObj THEN base
       ELSE LET tm == extract_table_metadata(create, d)
                fields == FieldsOf(tm[2], d)
            IN IF tm[1] = "" THEN base
               ELSE Put(base, tm[1],
                        [type |-> "table",
                         fields |-> IF tm[1] \in DOMAIN base
                                    THEN [n \in DOMAIN base[tm[1]].fields \cup DOMAIN fields |->
                                            IF n \in DOMAIN fields THEN fields[n]
                                            ELSE base[tm[1]].fields[n]]
                                    ELSE fields])

\* _populate_dcs_from_sql, the models mapping it leaves.
DcsModels(old, stmt, d) ==
    LET base == IF old = NoneObj THEN EmptyDict ELSE old
        create == FirstCreateTable(stmt)
    IN IF create = NoneObj THEN base
       ELSE LET tm == extract_table_metadata(create, d)
            IN IF tm[1] = "" THEN base
               ELSE Put(base, tm[1], [type |-> "table", fields |-> FieldsOf(tm[2], d)])

\* _populate_odcs_from_sql, the servers list it leaves.
OdcsServers(old, server_type) ==
    IF server_type = None THEN old
    ELSE List(Append(IF old = NoneObj THEN <<>> ELSE old.items,
                     [server |-> server_type, type |-> server_type]))

\* _populate_odcs_from_sql, the schema list it leaves.
OdcsSchema(old, stmt, d) ==
    LET base == IF old = NoneObj THEN List(<<>>) ELSE old
        create == FirstCreateTable(stmt)
    IN IF create = NoneObj THEN base
       ELSE LET tm == extract_table_metadata(create, d)
            IN IF tm[1] = "" THEN base
               ELSE List(Append(base.items,
                        [name |-> tm[1],
                         properties |-> [i \in 1..Len(tm[2]) |-> create_schema_property(tm[2][i])]]))

\* The contract's fields import_sql may write.
Contract == [servers |-> servers, models |-> models, schema_ |-> schema_]

\* A caller starts import_sql(contract, source, import_args).
Call ==
    /\ pc = "idle" /\ n_calls < MaxCalls
    /\ \E src \in SourceInputs, args \in ImportArgsInputs :
          /\ source' = src
          /\ import_args' = args
    /\ pc' = "read_file"
    /\ sql' = NoneObj /\ dialect' = None /\ parsed' = NoneObj
    /\ outcome' = NoCall
    /\ pre' = Contract
    /\ trace' = <<>>
    /\ n_calls' = n_calls + 1
    /\ UNCHANGED <<m_vars, d_vars, x_vars, t_vars, c_vars, servers0, tag_log>>

\* sql = read_file(source), the file exists.
ReadFile ==
    /\ pc = "read_file" /\ Exists(source)
    /\ sql' = Files[source]
    /\ trace' = Append(trace, "read_file")
    /\ pc' = "to_dialect"
    /\ UNCHANGED <<m_vars, d_vars, x_vars, t_vars, c_vars, source, import_args, dialect, parsed, outcome,
                   pre, n_calls, servers0, tag_log>>

\* import_sql resolving the dialect before it reads the file.
ReadFileMissing_DialectFirst ==
    /\ pc = "read_file" /\ ~Exists(source)
    /\ dialect' = to_dialect(import_args)
    /\ outcome' = FileNotFound(source)
    /\ trace' = trace \o <<"to_dialect", "read_file">>
    /\ pc' = "idle"
    /\ UNCHANGED <<m_vars, d_vars, x_vars, t_vars, c_vars, source, import_args, sql, parsed,
                   pre, n_calls, servers0, tag_log>>

\* sql = read_file(source), the file does not exist: read_file raises.
ReadFileMissing ==
    /\ pc = "read_file" /\ ~Exists(source)
    /\ outcome' = FileNotFound(source)
    /\ trace' = Append(trace, "read_file")
    /\ pc' = "idle"
    /\ UNCHANGED <<m_vars, d_vars, x_vars, t_vars, c_vars, source, import_args, sql, dialect, parsed,
                   pre, n_calls, servers0, tag_log>>

\* dialect = to_dialect(import_args)
ToDialect ==
    /\ pc = "to_dialect"
    /\ dialect' = to_dialect(import_args)
    /\ trace' = Append(trace, "to_dialect")
    /\ pc' = IF dialect' = "TERADATA" THEN "preprocess" ELSE "parse"
    /\ UNCHANGED <<m_vars, d_vars, x_vars, t_vars, c_vars, source, import_args, sql, parsed, outcome,
                   pre, n_calls, servers0, tag_log>>

\* if dialect == TERADATA: sql = _preprocess_teradata_sql(sql)
Preprocess ==
    /\ pc = "preprocess"
    /\ sql' = preprocess_teradata_sql(sql)
    /\ trace' = Append(trace, "preprocess")
    /\ pc' = "parse"
    /\ UNCHANGED <<m_vars, d_vars, x_vars, t_vars, c_vars, source, import_args, dialect, parsed, outcome,
                   pre, n_calls, servers0, tag_log>>

\* parsed = sqlglot.parse_one(sql, read=dialect), the parser accepts the text.
Parse ==
    /\ pc = "parse" /\ ParseError(sql, dialect) = ""
    /\ parsed' = parse_one(sql)
    /\ trace' = Append(trace, "parse")
    /\ pc' = "populate"
    /\ UNCHANGED <<m_vars, d_vars, x_vars, t_vars, c_vars, source, import_args, sql, dialect, outcome,
                   pre, n_calls, servers0, tag_log>>

\* import_sql recording the server entry before it parses.
ParseRaises_ServerFirst ==
    /\ pc = "parse" /\ ParseError(sql, dialect) # ""
    /\ servers' = IF shape = "classic"
                  THEN DcsServers(servers, to_server_type(source, dialect))
                  ELSE OdcsServers(servers, to_server_type(source, dialect))
    /\ outcome' = ParseFailed(source, ParseError(sql, dialect))
    /\ trace' = Append(trace, "parse")
    /\ pc' = "idle"
    /\ UNCHANGED <<m_vars, d_vars, x_vars, t_vars, shape, models, schema_, source, import_args, sql, dialect,
                   parsed, pre, n_calls, servers0, tag_log>>

\* parsed = sqlglot.parse_one(sql, read=dialect), the parser raises: the
\* except clause raises the DataContractException.
ParseRaises ==
    /\ pc = "parse" /\ ParseError(sql, dialect) # ""
    /\ outcome' = ParseFailed(source, ParseError(sql, dialect))
    /\ trace' = Append(trace, "parse")
    /\ pc' = "idle"
    /\ UNCHANGED <<m_vars, d_vars, x_vars, t_vars, c_vars, source, import_args, sql, dialect, parsed,
                   pre, n_calls, servers0, tag_log>>

\* _populate_dcs_from_sql, then return.
PopulateDcs ==
    /\ pc = "populate" /\ shape = "classic"
    /\ servers' = DcsServers(servers, to_server_type(source, dialect))
    /\ models' = DcsModels(models, parsed, dialect)
    /\ tag_log' = IF to_server_type(source, dialect) = None THEN tag_log
                  ELSE Append(tag_log, to_server_type(source, dialect))
    /\ outcome' = Returned
    /\ trace' = Append(trace, "populate")
    /\ pc' = "idle"
    /\ UNCHANGED <<m_vars, d_vars, x_vars, t_vars, shape, schema_, source, import_args, sql, dialect, parsed,
                   pre, n_calls, servers0>>

\* _populate_odcs_from_sql, then return.
PopulateOdcs ==
    /\ pc = "populate" /\ shape = "open"
    /\ servers' = OdcsServers(servers, to_server_type(source, dialect))
    /\ schema_' = OdcsSchema(schema_, parsed, dialect)
    /\ tag_log' = IF to_server_type(source, dialect) = None THEN tag_log
                  ELSE Append(tag_log, to_server_type(source, dialect))
    /\ outcome' = Returned
    /\ trace' = Append(trace, "populate")
    /\ pc' = "idle"
    /\ UNCHANGED <<m_vars, d_vars, x_vars, t_vars, shape, models, source, import_args, sql, dialect, parsed,
                   pre, n_calls, servers0>>

\* The contract objects a caller hands over: fresh ones (collections absent
\* or empty) and ones that already hold a server and a table.
ClassicServersInputs ==
    {NoneObj, EmptyDict, [k \in {"postgres"} |-> [type |-> "postgres-prod"]]}

ClassicModelsInputs ==
    {NoneObj, EmptyDict, [k \in {"users"} |-> [type |-> "table", fields |-> EmptyDict]]}

OpenServersInputs == {NoneObj, List(<<>>), List(<<[server |-> "prod", type |-> "postgres"]>>)}

OpenSchemaInputs == {NoneObj, List(<<>>), List(<<[name |-> "users", properties |-> <<>>]>>)}

MapOff ==
    /\ m_pc = "off" /\ m_fn = "" /\ m_sql_type = None /\ m_dialect = None /\ m_result = None

\* The value of a result variable whose function has not been called.
NotCalled == "<not called>"

\* The variables of the dialect lookups, unused while import_sql runs.
DialectOff ==
    /\ d_pc = "off" /\ d_args = NoneObj /\ d_dialect = None
    /\ d_server_type = NotCalled /\ d_key = NotCalled

\* The variables of the text preprocessing, unused while import_sql runs.
TextOff ==
    /\ t_pc = "off" /\ t_lines = NoneObj /\ t_sql = "" /\ t_once = "" /\ t_twice = ""

\* The variables of the column extraction, unused while import_sql runs.
ColumnOff ==
    /\ x_pc = "off" /\ x_column = NoneObj /\ x_dialect = None
    /\ x_metadata = NoneObj /\ x_field = NoneObj /\ x_property = NoneObj

Init ==
    /\ MapOff /\ DialectOff /\ ColumnOff /\ TextOff
    /\ \/ /\ shape = "classic"
          /\ servers \in ClassicServersInputs
          /\ models \in ClassicModelsInputs
          /\ schema_ = NoneObj
       \/ /\ shape = "open"
          /\ servers \in OpenServersInputs
          /\ schema_ \in OpenSchemaInputs
          /\ models = NoneObj
    /\ servers0 = servers
    /\ pc = "idle" /\ source = None /\ import_args = NoneObj /\ sql = NoneObj
    /\ dialect = None /\ parsed = NoneObj /\ outcome = NoCall
    /\ pre = NoneObj /\ trace = <<>> /\ n_calls = 0 /\ tag_log = <<>>

Next ==
    \/ Call
    \/ ReadFile
    \/ ReadFileMissing
    \/ ToDialect
    \/ Preprocess
    \/ Parse
    \/ ParseRaises
    \/ PopulateDcs
    \/ PopulateOdcs

Spec == Init /\ [][Next]_vars

(***************************************************************************)
(* Properties of import_sql (specification Spec).                          *)
(***************************************************************************)
Range(seq) == {seq[i] : i \in 1..Len(seq)}

\* sub in s
Contains(s, sub) ==
    \E i \in 1..(Len(s) - Len(sub) + 1) : SubSeq(s, i, i + Len(sub) - 1) = sub

\* The last call has ended by raising.
Raised == pc = "idle" /\ n_calls > 0 /\ outcome.raised # ""

\* The last call has ended by returning the contract.
Succeeded == pc = "idle" /\ n_calls > 0 /\ outcome = Returned

\* C2: when the parser rejects the (possibly preprocessed) text, import_sql
\* raises one DataContractException with type "import", result "error" and a
\* reason containing "Error parsing SQL", and the contract is as it was when
\* the call started; the contract differs from that only once parsing has
\* succeeded and the call has populated it.
C2_ParseFailureLeavesContract ==
    /\ (Raised /\ "parse" \in Range(trace)) =>
          /\ outcome.raised = "DataContractException"
          /\ outcome.type = "import"
          /\ outcome.result = "error"
          /\ Contains(outcome.reason, "Error parsing SQL")
          /\ Contract = pre
    /\ (n_calls > 0 /\ Contract # pre) =>
          /\ Succeeded
          /\ \E k \in 1..Len(trace) : trace[k] = "parse" /\ k < Len(trace)
          /\ trace[Len(trace)] = "populate"

\* The Teradata import of an unparsable file, as the second call on a
\* contract, was rejected by the parser after preprocessing.
C2_Witness ==
    /\ Raised
    /\ n_calls = 2
    /\ source = "invalid.sql"
    /\ trace = <<"read_file", "to_dialect", "preprocess", "parse">>
    /\ outcome.reason = "Error parsing SQL: Invalid expression / Unexpected token."

\* C3: when the source path does not exist, import_sql raises a
\* DataContractException with type "import", result "error" and a reason
\* naming the path ("does not exist") before dialect resolution,
\* preprocessing or parsing run, whatever the dialect argument is, and the
\* contract is unchanged.
C3_MissingFileFirst ==
    (pc = "idle" /\ n_calls > 0 /\ ~Exists(source)) =>
        /\ outcome.raised = "DataContractException"
        /\ outcome.type = "import"
        /\ outcome.result = "error"
        /\ outcome.reason = "The file '" \o source \o "' does not exist."
        /\ Contains(outcome.reason, source)
        /\ Contains(outcome.reason, "does not exist")
        /\ trace = <<"read_file">>
        /\ dialect = None /\ sql = NoneObj /\ parsed = NoneObj
        /\ Contract = pre

\* A Teradata import of the missing path has raised.
C3_Witness ==
    /\ Raised
    /\ source = MissingPath
    /\ import_args = [dialect |-> "Teradata"]
    /\ outcome.reason = "The file '/nonexistent/file.sql' does not exist."

\* The CREATE TABLE statements of a file, in order.
RECURSIVE CreateTables(_)
CreateTables(stmts) ==
    IF stmts = <<>> THEN <<>>
    ELSE IF Head(stmts).stmt = "Create" /\ Head(stmts).kind = "TABLE"
        THEN <<Head(stmts)>> \o CreateTables(Tail(stmts))
    ELSE CreateTables(Tail(stmts))

\* The call that returned was the first on a contract without tables.
FreshImport ==
    /\ Succeeded
    /\ n_calls = 1
    /\ pre.models \in {NoneObj, EmptyDict}
    /\ pre.schema_ \in {NoneObj, List(<<>>)}

\* C4: importing a source that contains several CREATE TABLE statements into
\* a fresh contract yields exactly one model (classic) or exactly one schema
\* object (open), named with the lower-cased name of the first CREATE TABLE
\* and holding only that table's columns.
C4_OneTablePerImport ==
    (FreshImport /\ Len(CreateTables(Files[source].statements)) >= 2) =>
        LET first == CreateTables(Files[source].statements)[1]
            names == {first.columns[i].name : i \in 1..Len(first.columns)}
        IN IF shape = "classic"
           THEN /\ models # NoneObj
                /\ DOMAIN models = {Lower(first.name)}
                /\ DOMAIN models[Lower(first.name)].fields = names
           ELSE /\ schema_ # NoneObj
                /\ Len(schema_.items) = 1
                /\ schema_.items[1].name = Lower(first.name)
                /\ Len(schema_.items[1].properties) = Len(first.columns)
                /\ \A i \in 1..Len(first.columns) :
                      schema_.items[1].properties[i].name = first.columns[i].name

\* C5: when the SQL parses but contains no CREATE TABLE statement,
\* import_sql raises no error and leaves the contract's schema collection
\* (models, schema) exactly as it was before the call.
C5_NoCreateTableLeavesSchema ==
    (pc = "idle" /\ n_calls > 0 /\ Exists(source)
     /\ ParseError(Files[source], dialect) = ""
     /\ CreateTables(Files[source].statements) = <<>>) =>
        /\ outcome = Returned
        /\ models = pre.models
        /\ schema_ = pre.schema_

\* The server tag the dialect table gives for a dialect: the dialect's name
\* in lower case, "sqlserver" for T-SQL, None for a dialect without an entry.
KnownServerTag(d) ==
    IF d = "TSQL" THEN "sqlserver"
    ELSE IF d \in {"POSTGRES", "BIGQUERY", "SNOWFLAKE", "REDSHIFT", "ORACLE", "MYSQL",
                   "DATABRICKS", "TERADATA"} THEN Lower(d)
    ELSE None

Keys(mapping) == IF mapping = NoneObj THEN {} ELSE DOMAIN mapping

Items(list) == IF list = NoneObj THEN <<>> ELSE list.items

\* C6: each successful import_sql call adds exactly one server entry when its
\* dialect resolves to a known server tag and none otherwise; over any
\* sequence of calls the classic servers mapping holds exactly one entry per
\* distinct tag used (a later import with the same tag overwrites it), and
\* the open servers list grows by one element per such import, duplicates of
\* the same dialect kept.
C6_ServerRecording ==
    /\ Succeeded =>
          LET tag == KnownServerTag(dialect)
          IN IF tag = None THEN servers = pre.servers
             ELSE IF shape = "classic"
                  THEN /\ DOMAIN servers = Keys(pre.servers) \cup {tag}
                       /\ servers[tag] = [type |-> tag]
                       /\ \A k \in Keys(pre.servers) \ {tag} : servers[k] = pre.servers[k]
                       /\ tag_log # <<>> /\ tag_log[Len(tag_log)] = tag
                  ELSE /\ servers = List(Append(Items(pre.servers),
                                                [server |-> tag, type |-> tag]))
                       /\ tag_log # <<>> /\ tag_log[Len(tag_log)] = tag
    /\ pc = "idle" =>
          IF tag_log = <<>> THEN servers = servers0
          ELSE IF shape = "classic"
               THEN /\ DOMAIN servers = Keys(servers0) \cup Range(tag_log)
                    /\ \A t \in Range(tag_log) : servers[t] = [type |-> t]
                    /\ \A k \in Keys(servers0) \ Range(tag_log) : servers[k] = servers0[k]
               ELSE servers =
                        List(Items(servers0) \o
                             [i \in 1..Len(tag_log) |->
                                 [server |-> tag_log[i], type |-> tag_log[i]]])

\* Two postgres imports into a classic contract that already had a
\* "postgres" server: the entry was overwritten, one entry remains.
C6_Witness ==
    /\ Succeeded
    /\ shape = "classic"
    /\ servers0 # NoneObj /\ "postgres" \in Keys(servers0)
    /\ tag_log = <<"postgres", "postgres">>
    /\ DOMAIN servers = {"postgres"}
    /\ servers["postgres"] = [type |-> "postgres"]

\* The member names of Dialects, lower-cased.
LowerMemberNames == {Lower(n) : n \in DialectsMembers}

\* import_args names no dialect the code resolves: it is None, empty, has no
\* "dialect" key, or its dialect is neither the alias nor a member name in
\* any letter case.
NoDialectNamed(args) ==
    \/ args = NoneObj
    \/ "dialect" \notin DOMAIN args
    \/ /\ args["dialect"] # "sqlserver"
       /\ Lower(args["dialect"]) \notin LowerMemberNames

\* C13: an absent or unrecognized dialect is never an error.  When
\* import_args names no dialect, the dialect resolves to None without an
\* exception; the import skips the Teradata preprocessing, fails only as the
\* file and the parser make it fail, and otherwise returns with the servers
\* of the contract as they were.
C13_NoDialectNoError ==
    (n_calls > 0 /\ NoDialectNamed(import_args)) =>
        /\ dialect = None
        /\ "preprocess" \notin Range(trace)
        /\ pc = "idle" =>
              IF ~Exists(source) THEN outcome = FileNotFound(source)
              ELSE IF ParseError(Files[source], None) # ""
                   THEN outcome = ParseFailed(source, ParseError(Files[source], None))
              ELSE /\ Succeeded
                   /\ trace = <<"read_file", "to_dialect", "parse", "populate">>
                   /\ servers = pre.servers

\* An import naming an unknown dialect has returned, the file being one the
\* Teradata preprocessing would have changed.
C13_Witness ==
    /\ Succeeded
    /\ import_args = [dialect |-> "nosuchdialect"]
    /\ source = "contracts.sql"
    /\ dialect = None
    /\ servers = pre.servers

\* The table a successful call imported: the statement parse_one returned,
\* when it is a CREATE TABLE with a column list.
ImportedTable == Succeeded /\ parsed.stmt = "Create" /\ parsed.kind = "TABLE" /\ parsed.has_schema

\* The last column definition of the given name in the imported table.
LastColumn(n) ==
    LET last == CHOOSE i \in 1..Len(parsed.columns) :
                    /\ parsed.columns[i].name = n
                    /\ \A j \in (i + 1)..Len(parsed.columns) : parsed.columns[j].name # n
    IN  parsed.columns[last]

\* C22: in a classic import the config mapping of every field produced has
\* exactly one entry, whose value is the physical type string of the column;
\* its key is the server tag followed by "Type" exactly when the import
\* recorded a server entry for the dialect, and "physicalType" exactly when
\* it recorded none.
C22_FieldConfigKey ==
    (ImportedTable /\ shape = "classic") =>
        LET tag == KnownServerTag(dialect)
            fields == models[Lower(parsed.name)].fields
        IN  /\ \A n \in DOMAIN fields :
                  /\ Cardinality(DOMAIN fields[n].config) = 1
                  /\ \A k \in DOMAIN fields[n].config :
                        /\ fields[n].config[k] = LastColumn(n).kind.sql
                        /\ k = IF tag = None THEN "physicalType" ELSE tag \o "Type"
            /\ IF tag = None THEN servers = pre.servers
               ELSE /\ tag \in Keys(servers) /\ servers[tag] = [type |-> tag]
                    /\ tag_log # <<>> /\ tag_log[Len(tag_log)] = tag
            /\ n_calls = 1 => (tag_log # <<>> <=> tag # None)

\* A sqlserver import of the users table stored the type of column name
\* under sqlserverType, next to a sqlserver server entry.
C22_Witness ==
    /\ ImportedTable /\ shape = "classic"
    /\ source = "users.sql"
    /\ import_args = [dialect |-> "sqlserver"]
    /\ models["users"].fields["name"].config = ("sqlserverType" :> "VARCHAR(100)")
    /\ servers["sqlserver"] = [type |-> "sqlserver"]

\* The facets of a ColumnMetadata, by the name of their option.
Facets(metadata) ==
    [maxLength |-> metadata.max_length, precision |-> metadata.precision,
     scale |-> metadata.scale]

\* C23: in an open import the property list of the schema object holds one
\* property per column definition of the table, in declaration order; the
\* logicalTypeOptions of each property holds exactly those of maxLength,
\* precision and scale that are present in the column's metadata, a value 0
\* included, and is not set when none of the three is present.
C23_PropertiesAndOptions ==
    (ImportedTable /\ shape = "open") =>
        LET obj == schema_.items[Len(schema_.items)]
        IN  /\ obj.name = Lower(parsed.name)
            /\ Len(obj.properties) = Len(parsed.columns)
            /\ \A i \in 1..Len(parsed.columns) :
                  LET facets == Facets(extract_column_metadata(parsed.columns[i], dialect))
                      present == {k \in DOMAIN facets : facets[k] # NoneObj}
                      options == obj.properties[i].logicalTypeOptions
                  IN  /\ obj.properties[i].name = parsed.columns[i].name
                      /\ IF present = {} THEN options = NoneObj
                         ELSE /\ options # NoneObj
                              /\ DOMAIN options = present
                              /\ \A k \in present : options[k] = facets[k].value

\* The orders table was imported: four properties in declaration order,
\* the second with precision 10 and scale 2, the fourth with the scale 0
\* kept, the first and third without options.
C23_Witness ==
    /\ ImportedTable /\ shape = "open"
    /\ source = "orders.sql"
    /\ LET props == schema_.items[Len(schema_.items)].properties
       IN  /\ [i \in 1..Len(props) |-> props[i].name] = <<"order_id", "amount", "note", "qty">>
           /\ props[1].logicalTypeOptions = NoneObj
           /\ props[2].logicalTypeOptions = [precision |-> 10, scale |-> 2]
           /\ props[3].logicalTypeOptions = NoneObj
           /\ props[4].logicalTypeOptions = [precision |-> 5, scale |-> 0]


\* C30: repeated imports of one table.  A successful import of a table leaves,
\* in the classic shape, the models the contract had before the call, with
\* exactly one model under the lower-cased table name, whose fields are
\* exactly those of this import (one per column name, made from the last
\* definition of that name); in the open shape, the schema objects the
\* contract had before the call, unchanged and in their order, followed by
\* one new schema object for this import.  The contract stays the object the
\* caller handed over: its shape is kept and the collection of the other
\* shape is not touched.  Holding after every call, this holds for every
\* sequence of imports of tables of one lower-cased name.
C30_RepeatedImports ==
    ImportedTable =>
        LET name == Lower(parsed.name)
            metadata(column) == extract_column_metadata(column, dialect)
        IN  IF shape = "classic"
            THEN LET before == IF pre.models = NoneObj THEN EmptyDict ELSE pre.models
                 IN  /\ DOMAIN models = DOMAIN before \cup {name}
                     /\ \A k \in DOMAIN before \ {name} : models[k] = before[k]
                     /\ models[name].type = "table"
                     /\ DOMAIN models[name].fields =
                            {parsed.columns[i].name : i \in 1..Len(parsed.columns)}
                     /\ \A n \in DOMAIN models[name].fields :
                            models[name].fields[n] = create_field(metadata(LastColumn(n)), dialect)
                     /\ schema_ = pre.schema_
            ELSE LET before == IF pre.schema_ = NoneObj THEN <<>> ELSE pre.schema_.items
                 IN  /\ Len(schema_.items) = Len(before) + 1
                     /\ SubSeq(schema_.items, 1, Len(before)) = before
                     /\ schema_.items[Len(schema_.items)] =
                            [name |-> name,
                             properties |-> [i \in 1..Len(parsed.columns) |->
                                 create_schema_property(metadata(parsed.columns[i]))]]
                     /\ models = pre.models

\* The second import on a classic contract is of USERS (id, email, id) after
\* one of Users (id, name): the one model users has the fields id and email
\* only, id from its last definition.
C30_Witness ==
    /\ ImportedTable /\ shape = "classic" /\ n_calls = 2
    /\ source = "multi.sql"
    /\ pre.models # NoneObj /\ "users" \in DOMAIN pre.models
    /\ DOMAIN pre.models["users"].fields = {"id", "name"}
    /\ DOMAIN models["users"].fields = {"id", "email"}
    /\ models["users"].fields["id"].type = "long"

(***************************************************************************)
(* Inputs of the mapping functions.                                        *)
(***************************************************************************)
\* Longest run of whitespace put before and after a type string.
MaxPad == 1

\* Type names: every key of the two tables and of the datetime fallback,
\* the interval keyword, near misses and unknown names.
TypeWords ==
    DOMAIN EXACT_TYPE_MAP
    \cup {PREFIX_TYPE_MAP[i][1] : i \in 1..Len(PREFIX_TYPE_MAP)}
    \cup {"datetime", "datetime2", "smalldatetime"}
    \cup {"interval", "inter", "in", "big", "dec", "timestam", "unknowntype", "",
          "timestamptz", "timestamp_tz", "timestampltz", "timestampntz",
          "timestamp_ntz", "geography"}

\* What may follow a type name: parameters, qualifiers, more letters.
TypeSuffixes ==
    {"", "(10)", "(10,2)", " (38, 0)", "eger", "s", "2", "foo",
     " with time zone", " without time zone", " with local time zone",
     " time zone ", " year(4) to month", " precision"}

\* Spellings of a lower-case string: as is, upper case, first letter upper case.
Spellings(s) ==
    {s, Upper(s),
     IF Len(s) = 0 THEN s ELSE UpperChar(CharAt(s, 1)) \o SubSeq(s, 2, Len(s))}

RECURSIVE Repeat(_, _)
Repeat(c, n) == IF n = 0 THEN "" ELSE c \o Repeat(c, n - 1)

\* Whitespace put before (spaces) and after (tab, then newlines) a type string.
LeftPads == {Repeat(" ", n) : n \in 0..MaxPad}

RightPads == {IF n = 0 THEN "" ELSE "\t" \o Repeat("\n", n - 1) : n \in 0..MaxPad}

SqlTypeInputs ==
    {None} \cup
    {l \o t \o r :
        l \in LeftPads, r \in RightPads,
        t \in UNION {Spellings(w \o x) : w \in TypeWords, x \in TypeSuffixes}}

DialectInputs == {None} \cup DialectsMembers

\* map_timestamp is documented to take the normalised string.
TimestampInputs == {w \o x : w \in TypeWords, x \in TypeSuffixes}

(***************************************************************************)
(* Specification SpecMap: one call of map_type_from_sql or map_timestamp.  *)
(***************************************************************************)
\* The variables of import_sql, unused while a mapping function is called.
ImportOff ==
    /\ shape = "classic" /\ servers = NoneObj /\ models = NoneObj /\ schema_ = NoneObj
    /\ pc = "off" /\ source = None /\ import_args = NoneObj /\ sql = NoneObj
    /\ dialect = None /\ parsed = NoneObj /\ outcome = NoCall
    /\ pre = NoneObj /\ trace = <<>> /\ n_calls = 0 /\ servers0 = NoneObj /\ tag_log = <<>>

InitMap ==
    /\ ImportOff /\ DialectOff /\ ColumnOff /\ TextOff
    /\ m_pc = "call"
    /\ m_result = None
    /\ \/ /\ m_fn = "map_type_from_sql"
          /\ m_sql_type \in SqlTypeInputs
          /\ m_dialect \in DialectInputs
       \/ /\ m_fn = "map_timestamp"
          /\ m_sql_type \in TimestampInputs
          /\ m_dialect = None

CallMapTypeFromSql ==
    /\ m_pc = "call" /\ m_fn = "map_type_from_sql"
    /\ m_result' = map_type_from_sql(m_sql_type, m_dialect)
    /\ m_pc' = "done"
    /\ UNCHANGED <<m_fn, m_sql_type, m_dialect, d_vars, x_vars, t_vars, c_vars, i_vars, h_vars>>

CallMapTimestamp ==
    /\ m_pc = "call" /\ m_fn = "map_timestamp"
    /\ m_result' = map_timestamp(m_sql_type)
    /\ m_pc' = "done"
    /\ UNCHANGED <<m_fn, m_sql_type, m_dialect, d_vars, x_vars, t_vars, c_vars, i_vars, h_vars>>

NextMap == CallMapTypeFromSql \/ CallMapTimestamp

SpecMap == InitMap /\ [][NextMap]_vars

(***************************************************************************)
(* Properties of the type mapping (specification SpecMap).                 *)
(***************************************************************************)
\* The canonical logical types of the glossary.
CanonicalTypes ==
    {"int", "long", "string", "text", "bytes", "boolean", "date", "timestamp_ntz",
     "timestamp_tz", "number", "decimal", "double", "float", "variant"}

\* The call of map_type_from_sql has returned.
MapTypeDone == m_pc = "done" /\ m_fn = "map_type_from_sql"

\* The normalized form of the argument of the call (lower-cased, trimmed);
\* map_timestamp receives its argument already normalized.
Normed == IF m_fn = "map_timestamp" THEN m_sql_type ELSE Strip(Lower(m_sql_type))

\* The indexes of the table prefixes that s starts with.
MatchingPrefixes(s) ==
    {i \in 1..Len(PREFIX_TYPE_MAP) : StartsWith(s, PREFIX_TYPE_MAP[i][1])}

\* No rule of the mapping applies to the normalized string s under dialect d.
MatchesNoRule(s, d) ==
    /\ ~StartsWith(s, "interval")
    /\ ~(s = "decimal" /\ d = "TERADATA")
    /\ s \notin DOMAIN EXACT_TYPE_MAP
    /\ MatchingPrefixes(s) = {}
    /\ s \notin {"datetime", "datetime2", "smalldatetime"}

\* C1: map_type_from_sql always returns a member of the 14-element canonical
\* vocabulary (never "timestamp", never None), and returns "variant" for None
\* and for every string that matches no rule.
C1_MapTypeTotal ==
    MapTypeDone =>
        /\ m_result \in CanonicalTypes
        /\ m_result # "timestamp" /\ m_result # None
        /\ m_sql_type = None => m_result = "variant"
        /\ (m_sql_type # None /\ MatchesNoRule(Normed, m_dialect)) => m_result = "variant"

\* An unknown type name with parameters, in upper case and padded, was mapped.
C1_Witness ==
    /\ MapTypeDone
    /\ m_sql_type = " GEOGRAPHY(10)\t"
    /\ m_dialect = "SNOWFLAKE"
    /\ m_result = "variant"

\* The normalized argument of the call reaches the ordered prefix step: it is
\* decided by none of the rules that precede the loop over PREFIX_TYPE_MAP.
ReachesPrefixStep ==
    /\ MapTypeDone
    /\ m_sql_type # None
    /\ LET s == Normed
       IN /\ ~StartsWith(s, "interval")
          /\ ~(s = "decimal" /\ m_dialect = "TERADATA")
          /\ s \notin DOMAIN EXACT_TYPE_MAP

\* Every table prefix that is a textual prefix of another table prefix comes
\* after it.
LongerPrefixesFirst ==
    \A i, j \in 1..Len(PREFIX_TYPE_MAP) :
        (i # j /\ StartsWith(PREFIX_TYPE_MAP[j][1], PREFIX_TYPE_MAP[i][1])) => j < i

\* C7: for every normalized string that reaches the prefix step, under every
\* dialect, the first matching entry of PREFIX_TYPE_MAP is the longest table
\* prefix the string starts with and decides the result; a table prefix that
\* is a textual prefix of another comes after it; "bigint..." maps to "long".
C7_PrefixOrder ==
    ReachesPrefixStep =>
        LET s == Normed
            hits == MatchingPrefixes(s)
        IN hits # {} =>
              LET first == FirstPrefixMatch(s)
              IN /\ \A j \in hits :
                        Len(PREFIX_TYPE_MAP[j][1]) <= Len(PREFIX_TYPE_MAP[first][1])
                 /\ LongerPrefixesFirst
                 /\ PREFIX_TYPE_MAP[first][1] # "timestamp" =>
                        m_result = PREFIX_TYPE_MAP[first][2]
                 /\ StartsWith(s, "bigint") => (m_result = "long" /\ m_result # "int")

\* "Integer(10)" starts with two table prefixes, "integer" and "int".
C7_Witness ==
    /\ ReachesPrefixStep
    /\ m_sql_type = "Integer(10)"
    /\ Cardinality(MatchingPrefixes(Normed)) = 2
    /\ m_result = "int"

\* C8: every type string whose normalized form starts with "interval" maps to
\* "variant" under every dialect, never to "int" through the "int" prefix.
C8_IntervalIsVariant ==
    (MapTypeDone /\ m_sql_type # None /\ StartsWith(Normed, "interval")) =>
        m_result = "variant"

\* An upper-case, padded INTERVAL type was mapped under the Oracle dialect.
C8_Witness ==
    /\ MapTypeDone
    /\ m_sql_type = " INTERVAL YEAR(4) TO MONTH"
    /\ m_dialect = "ORACLE"
    /\ m_result = "variant"

\* "decimal" followed by a parameter list.
DecimalWithParams(s) == StartsWith(s, "decimal(") \/ StartsWith(s, "decimal (")

\* C9: bare "decimal" maps to "number" under Teradata and to "decimal" under
\* no dialect and every other dialect; "decimal" followed by parameters maps
\* to "decimal" under Teradata too.
C9_DecimalTeradata ==
    (MapTypeDone /\ m_sql_type # None) =>
        /\ Normed = "decimal" =>
              m_result = (IF m_dialect = "TERADATA" THEN "number" ELSE "decimal")
        /\ DecimalWithParams(Normed) => m_result = "decimal"

\* DECIMAL(10,2) was mapped under the Teradata dialect.
C9_Witness ==
    /\ MapTypeDone
    /\ m_sql_type = "DECIMAL(10,2)"
    /\ m_dialect = "TERADATA"
    /\ m_result = "decimal"

\* The strings the timestamp sub-mapping answers timestamp_tz for.
IsTimestampTz(s) ==
    \/ s \in {"timestamptz", "timestamp_tz", "timestamp with time zone"}
    \/ StartsWith(s, "timestampltz")
    \/ EndsWith(s, "time zone")

\* C10: for every normalized string starting with "timestamp" the result is
\* "timestamp_tz" exactly when the string is "timestamptz", "timestamp_tz" or
\* "timestamp with time zone", starts with "timestampltz" or ends with
\* "time zone", and "timestamp_ntz" in every other case.
C10_TimestampSubMapping ==
    (m_pc = "done" /\ m_sql_type # None /\ StartsWith(Normed, "timestamp")) =>
        /\ m_result = "timestamp_tz" <=> IsTimestampTz(Normed)
        /\ ~IsTimestampTz(Normed) => m_result = "timestamp_ntz"

\* TIMESTAMPLTZ(10) reached the sub-mapping through map_type_from_sql.
C10_Witness ==
    /\ MapTypeDone
    /\ m_sql_type = "TIMESTAMPLTZ(10)"
    /\ m_result = "timestamp_tz"

\* Other spellings of the argument of the finished call: every letter in
\* upper case with whitespace added on both sides, and every letter in lower
\* case with other whitespace added.
Respellings(s) ==
    {"\r" \o Upper(s) \o " ", " \t" \o Lower(s) \o "\n"}

\* C11: map_type_from_sql is case-insensitive and ignores leading and trailing
\* whitespace: a re-casing of the type string, and the type string with
\* whitespace added at either end, map to the same canonical type as the type
\* string itself, under the same dialect.
C11_CaseAndWhitespace ==
    (MapTypeDone /\ m_sql_type # None) =>
        \A v \in Respellings(m_sql_type) :
            map_type_from_sql(v, m_dialect) = m_result

\* A mixed-case, padded spelling of a mapped type was mapped to a type other
\* than the fallback.
C11_Witness ==
    /\ MapTypeDone /\ m_sql_type # None
    /\ m_sql_type # Strip(m_sql_type)
    /\ Strip(m_sql_type) \notin {Lower(Strip(m_sql_type)), Upper(Strip(m_sql_type))}
    /\ m_result = "timestamp_tz"


\* C28: the dialect matters for bare "decimal" only: a type string whose
\* normalized form is not exactly "decimal" (None included) is mapped, under
\* every dialect, to what it is mapped to under no dialect, so to the same
\* logical type under all of them.
C28_DialectOnlyForDecimal ==
    MapTypeDone =>
        \/ m_result = map_type_from_sql(m_sql_type, None)
        \/ m_sql_type # None /\ Normed = "decimal"

\* NUMERIC, the other decimal type name, was mapped under Teradata.
C28_Witness ==
    /\ MapTypeDone
    /\ m_sql_type = "NUMERIC"
    /\ m_dialect = "TERADATA"
    /\ m_result = "decimal"

\* The type names of the exact-match table, of the prefix table and of the
\* datetime fallback.
TableTypeNames ==
    DOMAIN EXACT_TYPE_MAP
    \cup {PREFIX_TYPE_MAP[i][1] : i \in 1..Len(PREFIX_TYPE_MAP)}
    \cup {"datetime", "datetime2", "smalldatetime"}

\* Parenthesised parameter lists.
ParameterLists == {"(10)", "(10,2)", "(MAX)"}

\* C29: type parameters do not change the logical type: for every type name
\* t of the exact-match table, the prefix table or the datetime fallback,
\* every dialect and every parenthesised parameter list,
\* map_type_from_sql(t + "(params)") equals map_type_from_sql(t).
C29_ParametersIgnored ==
    (MapTypeDone /\ m_sql_type \in TableTypeNames) =>
        \A params \in ParameterLists :
            map_type_from_sql(m_sql_type \o params, m_dialect) = m_result

(***************************************************************************)
(* Specification SpecDialect: one call of to_dialect, followed by the      *)
(* lookups to_server_type and to_physical_type_key on the dialect it       *)
(* returned.                                                               *)
(***************************************************************************)
\* Dialect names a user may pass: every member name of Dialects, the alias,
\* and names that are neither, each in several spellings.
DialectNameInputs ==
    UNION {Spellings(Lower(n)) :
              n \in DialectsMembers \cup {"SQLSERVER", "MSSQL", "INVALID_DB", "POSTGRESQL"}}
    \cup {"SqlServer", "sqlServer", "PostgreS", "tSQL", "", " postgres"}

DialectArgsInputs ==
    {NoneObj, EmptyDict, [some_key |-> "value"], [format |-> "sql"]}
    \cup {[dialect |-> n] : n \in DialectNameInputs}
    \cup {[dialect |-> n, format |-> "sql"] : n \in {"postgres", "sqlserver", "nosuch"}}

InitDialect ==
    /\ ImportOff /\ MapOff /\ ColumnOff /\ TextOff
    /\ d_pc = "call"
    /\ d_args \in DialectArgsInputs
    /\ d_dialect = None
    /\ d_server_type = NotCalled
    /\ d_key = NotCalled

CallToDialect ==
    /\ d_pc = "call"
    /\ d_dialect' = to_dialect(d_args)
    /\ d_pc' = "resolved"
    /\ UNCHANGED <<d_args, d_server_type, d_key, m_vars, x_vars, t_vars, c_vars, i_vars, h_vars>>

CallToServerType ==
    /\ d_pc = "resolved" /\ d_server_type = NotCalled
    /\ d_server_type' = to_server_type(MissingPath, d_dialect)
    /\ UNCHANGED <<d_pc, d_args, d_dialect, d_key, m_vars, x_vars, t_vars, c_vars, i_vars, h_vars>>

CallToPhysicalTypeKey ==
    /\ d_pc = "resolved" /\ d_key = NotCalled
    /\ d_key' = to_physical_type_key(d_dialect)
    /\ UNCHANGED <<d_pc, d_args, d_dialect, d_server_type, m_vars, x_vars, t_vars, c_vars, i_vars, h_vars>>

NextDialect == CallToDialect \/ CallToServerType \/ CallToPhysicalTypeKey

SpecDialect == InitDialect /\ [][NextDialect]_vars

(***************************************************************************)
(* Properties of the dialect lookups.                                      *)
(***************************************************************************)
\* to_dialect has returned for an argument that names a dialect.
DialectNamed == d_pc = "resolved" /\ d_args # NoneObj /\ "dialect" \in DOMAIN d_args

\* The same name in other letter cases.
Recasings(n) == Spellings(n) \cup Spellings(Lower(n))

\* C12: to_dialect resolves dialect names case-insensitively: a name that
\* differs from the given one only in letter case resolves to the same
\* identifier, for the member names and for the alias "sqlserver" alike.
C12_DialectCaseInsensitive ==
    DialectNamed =>
        \A n \in Recasings(d_args["dialect"]) :
            to_dialect([dialect |-> n]) = d_dialect

\* C14: the lookups derived from the dialect are total.  For each of the nine
\* configured dialects to_server_type returns its server tag ("sqlserver" for
\* TSQL, the lower-cased member name for the other eight) and
\* to_physical_type_key returns that tag followed by "Type"; for no dialect
\* and for every other dialect to_server_type returns None and
\* to_physical_type_key returns "physicalType".
C14_DialectLookups ==
    LET tag == KnownServerTag(d_dialect)
    IN  /\ d_server_type # NotCalled => d_server_type = tag
        /\ d_key # NotCalled =>
              d_key = IF tag = None THEN "physicalType" ELSE tag \o "Type"

\* Both lookups were made for the dialect the alias resolves to.
C14_Witness ==
    /\ d_dialect = "TSQL"
    /\ d_server_type = "sqlserver"
    /\ d_key = "sqlserverType"

(***************************************************************************)
(* Specification SpecColumn: one column definition goes through            *)
(* _extract_column_metadata, and its metadata through _create_field or     *)
(* _create_schema_property.                                                *)
(***************************************************************************)
\* Largest number of parameters of a type.
MaxParams == 3

TypeNameInputs ==
    {"VARCHAR", "CHAR", "NVARCHAR", "NCHAR", "DECIMAL", "NUMERIC", "FLOAT", "NUMBER",
     "INT", "TEXT", "TIMESTAMP", "Nvarchar"}

ParamInputs == {"10", "0", "MAX"}

ParamListInputs == UNION {[1..n -> ParamInputs] : n \in 0..MaxParams}

\* No type node, a type node without a type, one whose type has no name, and
\* the named types with their parameter lists.
KindInputs ==
    {NoneObj, DataType(None, <<>>, "UNKNOWN"), DataType("", <<"10">>, "(10)")}
    \cup {Type(t, ps) : t \in TypeNameInputs, ps \in ParamListInputs}

ConstraintInputs ==
    {<<>>,
     <<PrimaryKeyColumnConstraint>>,
     <<PrimaryKey>>,
     <<NotNullColumnConstraint(FALSE)>>,
     <<NotNullColumnConstraint(TRUE)>>,
     <<UniqueColumnConstraint>>,
     <<PrimaryKeyColumnConstraint, NotNullColumnConstraint(FALSE)>>,
     <<UniqueColumnConstraint, NotNullColumnConstraint(TRUE)>>}

\* No parent, and tables with no, one and two table-level primary keys.
ParentInputs ==
    {NoneObj, Schema(<<>>), Schema(<<<<"id">>>>), Schema(<<<<"ID">>>>),
     Schema(<<<<"other">>, <<"x", "id">>>>)}

\* Constraint lists with no, one and two COMMENT '...' constraints.
CommentConstraintInputs ==
    {<<>>,
     <<CommentColumnConstraint("user id")>>,
     <<CommentColumnConstraint("")>>,
     <<NotNullColumnConstraint(FALSE), CommentColumnConstraint("first"),
       CommentColumnConstraint("second")>>}

\* No attached comments, one -- comment and several.
CommentsInputs ==
    {NoneObj, List(<<" a note ">>), List(<<"line one", "\tline  two ", " three">>)}

CommentedColumnInputs ==
    {[ColumnDef("id", Type("INT", <<>>), cs) EXCEPT !.comments = cm] :
        cs \in CommentConstraintInputs, cm \in CommentsInputs}

ColumnInputs ==
    {[ColumnDef("id", k, cs) EXCEPT !.parent = p] :
        k \in KindInputs, cs \in ConstraintInputs, p \in ParentInputs}
    \cup CommentedColumnInputs

ColumnDialectInputs == {None, "TSQL", "TERADATA"}

InitColumn ==
    /\ ImportOff /\ MapOff /\ DialectOff /\ TextOff
    /\ x_pc = "call"
    /\ x_column \in ColumnInputs
    /\ x_dialect \in ColumnDialectInputs
    /\ x_metadata = NoneObj /\ x_field = NoneObj /\ x_property = NoneObj

ExtractColumnMetadata ==
    /\ x_pc = "call"
    /\ x_metadata' = extract_column_metadata(x_column, x_dialect)
    /\ x_pc' = "metadata"
    /\ UNCHANGED <<x_column, x_dialect, x_field, x_property,
                   m_vars, d_vars, t_vars, c_vars, i_vars, h_vars>>

CreateField ==
    /\ x_pc = "metadata"
    /\ x_field' = create_field(x_metadata, x_dialect)
    /\ x_pc' = "field"
    /\ UNCHANGED <<x_column, x_dialect, x_metadata, x_property,
                   m_vars, d_vars, t_vars, c_vars, i_vars, h_vars>>

CreateSchemaProperty ==
    /\ x_pc = "metadata"
    /\ x_property' = create_schema_property(x_metadata)
    /\ x_pc' = "property"
    /\ UNCHANGED <<x_column, x_dialect, x_metadata, x_field,
                   m_vars, d_vars, t_vars, c_vars, i_vars, h_vars>>

NextColumn == ExtractColumnMetadata \/ CreateField \/ CreateSchemaProperty

SpecColumn == InitColumn /\ [][NextColumn]_vars

(***************************************************************************)
(* Properties of the column extraction.                                    *)
(***************************************************************************)
\* _extract_column_metadata has returned for x_column.
MetadataDone == x_pc \in {"metadata", "field", "property"}

\* The column carries a primary-key constraint of its own.
ColumnLevelKey(c) ==
    \E k \in Range(c.constraints) : k.kind \in {"PrimaryKeyColumnConstraint", "PrimaryKey"}

\* A table-level primary key of the column's table lists the column's name.
TableLevelKey(c) ==
    /\ c.parent # NoneObj
    /\ \E pk \in Range(c.parent.primary_keys) : c.name \in Range(pk)

\* C15: the primary-key flag is tri-state: get_primary_key returns True when
\* the column carries a column-level primary-key constraint, otherwise True
\* when a table-level primary key of the same table lists a name equal to
\* the column's name, and otherwise None; it never returns False, whatever
\* other constraints the column has.
C15_PrimaryKeyTriState ==
    MetadataDone =>
        /\ x_metadata.is_primary_key # Some(FALSE)
        /\ x_metadata.is_primary_key =
              IF ColumnLevelKey(x_column) \/ TableLevelKey(x_column)
              THEN Some(TRUE) ELSE NoneObj

\* A column with no key constraint of its own, listed second in the second
\* table-level primary key, was found to be a primary key.
C15_Witness ==
    /\ MetadataDone
    /\ x_column.constraints = <<UniqueColumnConstraint, NotNullColumnConstraint(TRUE)>>
    /\ x_column.parent = Schema(<<<<"other">>, <<"x", "id">>>>)
    /\ x_metadata.is_primary_key = Some(TRUE)

\* A NOT NULL constraint is attached to the column.
HasNotNull(c) ==
    \E k \in Range(c.constraints) : k.kind = "NotNullColumnConstraint" /\ ~k.allow_null

\* C16: is_required is true if and only if a NOT NULL constraint is attached
\* to the column; a primary-key constraint alone, or no constraint at all,
\* leaves it false.
C16_RequiredIffNotNull ==
    MetadataDone => (x_metadata.is_required <=> HasNotNull(x_column))

\* C17: a classic field has no flag written as false: primaryKey is True when
\* the column is a primary key and None otherwise, and required is True
\* when the column has NOT NULL and None otherwise.
C17_FieldFlags ==
    (x_pc = "field") =>
        /\ x_field.primaryKey =
              IF ColumnLevelKey(x_column) \/ TableLevelKey(x_column)
              THEN Some(TRUE) ELSE NoneObj
        /\ x_field.required = IF HasNotNull(x_column) THEN Some(TRUE) ELSE NoneObj

\* The normalised base type name of a column, None when it has none.
BaseType(c) ==
    IF c.kind = NoneObj THEN None
    ELSE IF c.kind.this \in {None, ""} THEN None
    ELSE Lower(c.kind.this)

\* The parameters of the column's type.
Params(c) == IF c.kind = NoneObj THEN <<>> ELSE c.kind.params

\* The number a parameter spells, -1 when it spells none.
ParamValue(param) ==
    CASE param = "10" -> 10
      [] param = "0" -> 0
      [] OTHER -> -1

CharacterTypes == {"varchar", "char", "nvarchar", "nchar"}

DecimalTypes == {"decimal", "numeric", "float", "number"}

\* C18: get_max_length returns a value only for a base type among varchar,
\* char, nvarchar, nchar with at least one parameter, and the value is the
\* integer of the first parameter; for any other base type, without a
\* parameter, or with a first parameter that is not a string of digits it
\* returns None.
C18_MaxLength ==
    MetadataDone =>
        x_metadata.max_length =
            IF /\ BaseType(x_column) \in CharacterTypes
               /\ Len(Params(x_column)) >= 1
               /\ ParamValue(Params(x_column)[1]) >= 0
            THEN Some(ParamValue(Params(x_column)[1]))
            ELSE NoneObj

\* The length of a character type was taken from the first of three
\* parameters, the others being no number and another number.
C18_Witness ==
    /\ MetadataDone
    /\ x_column.kind = Type("Nvarchar", <<"10", "MAX", "0">>)
    /\ x_metadata.max_length = Some(10)

\* C19: get_precision_scale, for a base type among decimal, numeric, float,
\* number: no parameter gives (None, None), one numeric parameter p gives
\* (p, 0), two numeric parameters p, s give (p, s), a non-numeric parameter
\* or more than two parameters give (None, None); every other base type and
\* a column without type information give (None, None).
C19_PrecisionScale ==
    MetadataDone =>
        LET ps == Params(x_column)
        IN  <<x_metadata.precision, x_metadata.scale>> =
                IF BaseType(x_column) \notin DecimalTypes THEN <<NoneObj, NoneObj>>
                ELSE IF Len(ps) = 1 /\ ParamValue(ps[1]) >= 0
                     THEN <<Some(ParamValue(ps[1])), Some(0)>>
                ELSE IF Len(ps) = 2 /\ ParamValue(ps[1]) >= 0 /\ ParamValue(ps[2]) >= 0
                     THEN <<Some(ParamValue(ps[1])), Some(ParamValue(ps[2]))>>
                ELSE <<NoneObj, NoneObj>>

\* A one-parameter numeric type got its scale defaulted to 0.
C19_Witness ==
    /\ MetadataDone
    /\ x_column.kind = Type("NUMERIC", <<"10">>)
    /\ x_metadata.precision = Some(10)
    /\ x_metadata.scale = Some(0)

\* C20: in every ColumnMetadata max_length is present only for a base type
\* among varchar, char, nvarchar, nchar, precision and scale only for one
\* among decimal, numeric, float, number; the two groups are never present
\* together, and precision and scale are both present or both absent.
C20_FacetInvariant ==
    MetadataDone =>
        /\ x_metadata.max_length # NoneObj => BaseType(x_column) \in CharacterTypes
        /\ (x_metadata.precision # NoneObj \/ x_metadata.scale # NoneObj) =>
              BaseType(x_column) \in DecimalTypes
        /\ ~(/\ x_metadata.max_length # NoneObj
              /\ (x_metadata.precision # NoneObj \/ x_metadata.scale # NoneObj))
        /\ (x_metadata.precision = NoneObj) <=> (x_metadata.scale = NoneObj)

\* A two-parameter decimal has precision and scale and no max_length.
C20_Witness ==
    /\ MetadataDone
    /\ x_column.kind = Type("DECIMAL", <<"10", "0">>)
    /\ x_metadata.precision = Some(10)
    /\ x_metadata.scale = Some(0)
    /\ x_metadata.max_length = NoneObj

\* C21: whenever max_length is present on a ColumnMetadata it is an integer
\* of at least 1, and whenever precision and scale are present they are
\* integers of at least 0, for every parameter made of digits, "0" included.
C21_FacetRanges ==
    MetadataDone =>
        /\ x_metadata.max_length # NoneObj => x_metadata.max_length.value >= 1
        /\ x_metadata.precision # NoneObj => x_metadata.precision.value >= 0
        /\ x_metadata.scale # NoneObj => x_metadata.scale.value >= 0

\* The attached comment lines, each stripped, joined by single spaces.
RECURSIVE JoinedComments(_)
JoinedComments(lines) ==
    IF Len(lines) = 1 THEN Strip(lines[1])
    ELSE JoinedComments(SubSeq(lines, 1, Len(lines) - 1)) \o " " \o Strip(lines[Len(lines)])

\* The texts of the COMMENT constraints of the column, in order.
CommentTexts(column) ==
    LET at == {i \in 1..Len(column.constraints) :
                  column.constraints[i].kind = "CommentColumnConstraint"}
    IN  [n \in 1..Cardinality(at) |->
            column.constraints[CHOOSE i \in at :
                Cardinality({j \in at : j < i}) = n - 1].this]

\* C27: description precedence: get_description returns the literal text of
\* the first inline COMMENT constraint of the column when there is one, even
\* if the column has attached comments too; otherwise the attached comment
\* lines, each stripped, joined by single spaces in their order; otherwise
\* (no COMMENT constraint and no attached comments) None.
C27_DescriptionPrecedence ==
    MetadataDone =>
        LET texts == CommentTexts(x_column)
        IN  /\ texts # <<>> => x_metadata.description = texts[1]
            /\ (texts = <<>> /\ x_column.comments # NoneObj) =>
                   x_metadata.description = JoinedComments(x_column.comments.items)
            /\ (texts = <<>> /\ x_column.comments = NoneObj) =>
                   x_metadata.description = None

\* A column with two COMMENT constraints and three attached comment lines
\* has the text of the first constraint as its description.
C27_Witness ==
    /\ MetadataDone
    /\ Len(CommentTexts(x_column)) = 2
    /\ x_column.comments # NoneObj
    /\ Len(x_column.comments.items) = 3
    /\ x_metadata.description = "first"

(***************************************************************************)
(* The Teradata preprocessing on the text: re.sub of                       *)
(* TERADATA_INTERVAL_PATTERN (MULTILINE, IGNORECASE) and the three         *)
(* substitutions of _cleanup_teradata_sql, computed on the characters.     *)
(* A position is an index into the text; a match is given by the position  *)
(* after its last character, 0 when there is no match.                     *)
(***************************************************************************)
\* [ \t]
BlankChars == {" ", "\t"}

\* \w (ASCII)
WordChars ==
    {CharAt(UpperLetters, i) : i \in 1..Len(UpperLetters)}
    \cup {CharAt(LowerLetters, i) : i \in 1..Len(LowerLetters)}
    \cup {Digits[i] : i \in 1..Len(Digits)} \cup {"_"}

\* \s (ASCII)
SpaceChars == {" ", "\t", "\n", "\r", "\f"}

RECURSIVE SkipIn(_, _, _)
\* The position after the longest run of characters of class that starts at i.
SkipIn(s, i, class) ==
    IF i <= Len(s) /\ CharAt(s, i) \in class THEN SkipIn(s, i + 1, class) ELSE i

RECURSIVE SkipNot(_, _, _)
\* The position of the first character c at or after i, Len(s) + 1 without one.
SkipNot(s, i, c) ==
    IF i <= Len(s) /\ CharAt(s, i) # c THEN SkipNot(s, i + 1, c) ELSE i

\* The word (in upper case) read at i in any letter case: the position after
\* it, 0 when the text reads otherwise.
Literal(s, i, word) ==
    IF i = 0 \/ i + Len(word) - 1 > Len(s) THEN 0
    ELSE IF Upper(SubSeq(s, i, i + Len(word) - 1)) = word THEN i + Len(word)
    ELSE 0

\* (?:first|second) at i
Either(s, i, first, second) ==
    IF Literal(s, i, first) # 0 THEN Literal(s, i, first) ELSE Literal(s, i, second)

\* [ \t]+ at i: the position after the run, 0 when there is no blank at i.
Blanks(s, i) ==
    IF i = 0 THEN 0
    ELSE IF SkipIn(s, i, BlankChars) = i THEN 0
    ELSE SkipIn(s, i, BlankChars)

\* (?:[ \t]*\([^)]*\))? at i: the position after the closing parenthesis,
\* and i itself when the group does not match.
OptionalPrecision(s, i) ==
    IF i = 0 THEN 0
    ELSE LET open == SkipIn(s, i, BlankChars)
         IN  IF open <= Len(s) /\ CharAt(s, open) = "("
             THEN LET close == SkipNot(s, open + 1, ")")
                  IN  IF close <= Len(s) THEN close + 1 ELSE i
             ELSE i

\* [ \t]*,?[ \t]*(?:--[^\n]*)?\n? at i: the end of the pattern, which
\* always matches.
LineEnd(s, i) ==
    LET comma == SkipIn(s, i, BlankChars)
        after == IF comma <= Len(s) /\ CharAt(s, comma) = ","
                 THEN SkipIn(s, comma + 1, BlankChars)
                 ELSE comma
        comment == IF after + 1 <= Len(s) /\ SubSeq(s, after, after + 1) = "--"
                   THEN SkipNot(s, after + 2, "\n")
                   ELSE after
    IN  IF comment <= Len(s) /\ CharAt(s, comment) = "\n" THEN comment + 1 ELSE comment

\* TERADATA_INTERVAL_PATTERN matched at the line start i.
TERADATA_INTERVAL_PATTERN(s, i) ==
    LET name == SkipIn(s, i, BlankChars)
        type == IF SkipIn(s, name, WordChars) = name THEN 0
                ELSE Blanks(s, SkipIn(s, name, WordChars))
        from == Either(s, Blanks(s, Literal(s, type, "INTERVAL")), "YEAR", "DAY")
        to == Literal(s, Blanks(s, OptionalPrecision(s, from)), "TO")
        last == Either(s, Blanks(s, to), "MONTH", "SECOND")
    IN  IF last = 0 THEN 0 ELSE LineEnd(s, OptionalPrecision(s, last))

\* The position after the next newline at or after i.
NextLine(s, i) ==
    IF SkipNot(s, i, "\n") <= Len(s) THEN SkipNot(s, i, "\n") + 1 ELSE Len(s) + 1

RECURSIVE RemoveIntervals(_, _)
\* re.sub(TERADATA_INTERVAL_PATTERN, "", sql) from the line start i on: the
\* pattern is tried where a line starts; after a match that did not take the
\* newline the scan goes on inside the line, where ^ does not match.
RemoveIntervals(s, i) ==
    IF i > Len(s) THEN ""
    ELSE LET end == TERADATA_INTERVAL_PATTERN(s, i)
         IN  IF end = 0
             THEN SubSeq(s, i, NextLine(s, i) - 1) \o RemoveIntervals(s, NextLine(s, i))
             ELSE IF CharAt(s, end - 1) = "\n" THEN RemoveIntervals(s, end)
             ELSE SubSeq(s, end, NextLine(s, end) - 1) \o RemoveIntervals(s, NextLine(s, end))

\* re.search(TERADATA_INTERVAL_PATTERN, sql) is not None
HasInterval(s) ==
    \E i \in 1..Len(s) :
        /\ i = 1 \/ CharAt(s, i - 1) = "\n"
        /\ TERADATA_INTERVAL_PATTERN(s, i) # 0

RECURSIVE SubComma(_, _, _, _)
\* re.sub of the pattern `,\s*` + closer (with a newline required inside
\* the whitespace when newline is set) by replacement, from position i on.
SubComma(s, i, closer, newline) ==
    IF i > Len(s) THEN ""
    ELSE LET comma == SkipNot(s, i, ",")
             stop == SkipIn(s, comma + 1, SpaceChars)
         IN  IF comma > Len(s) THEN SubSeq(s, i, Len(s))
             ELSE IF /\ stop <= Len(s) /\ CharAt(s, stop) = closer
                     /\ newline => \E k \in (comma + 1)..(stop - 1) : CharAt(s, k) = "\n"
                  THEN SubSeq(s, i, comma - 1) \o closer \o SubComma(s, stop + 1, closer, newline)
             ELSE SubSeq(s, i, comma) \o SubComma(s, comma + 1, closer, newline)

\* _cleanup_teradata_sql
cleanup_teradata_sql(s) ==
    LET commas == SubComma(s, 1, ",", FALSE)
        closing == SubComma(commas, 1, ")", FALSE)
    IN  SubComma(closing, 1, ")", TRUE)

\* _preprocess_teradata_sql on the text
preprocess_teradata_text(s) == cleanup_teradata_sql(RemoveIntervals(s, 1))

(***************************************************************************)
(* Specification SpecText: one SQL text goes through                       *)
(* _preprocess_teradata_sql, and the result goes through it again.         *)
(***************************************************************************)
\* Largest number of lines between the parentheses of a CREATE TABLE.
MaxLines == 3

\* A column definition: its name, its type and what follows the type.
TextColumn(name, type, rest) == [name |-> name, type |-> type, rest |-> rest]

\* The text of a column definition.
ColumnText(c) ==
    c.name \o " " \o c.type \o (IF c.rest = "" THEN "" ELSE " " \o c.rest)

\* A line of column definitions (one as a rule) after its indentation.
TextLine(indent, columns) == [indent |-> indent, columns |-> columns]

LineText(l) ==
    l.indent \o JoinWith(", ", [i \in 1..Len(l.columns) |-> ColumnText(l.columns[i])])

LineInputs ==
    {TextLine("  ", <<TextColumn("id", "INT", "")>>),
     TextLine("  ", <<TextColumn("name", "VARCHAR(100)", "")>>),
     TextLine("  ", <<TextColumn("note", "VARCHAR(2)", "DEFAULT ',,'")>>),
     TextLine("  ", <<TextColumn("duration", "INTERVAL YEAR(2) TO MONTH", "")>>),
     TextLine("", <<TextColumn("elapsed", "interval day (2) to second (6)", "")>>),
     TextLine("\t", <<TextColumn("age", "INTERVAL YEAR TO MONTH", "NOT NULL")>>),
     TextLine("  ", <<TextColumn("span", "INTERVAL DAY TO SECOND", ""),
                     TextColumn("lag", "INTERVAL DAY TO SECOND", "")>>)}

\* What stands between two lines, and what ends the column list.
SeparatorInputs == {",\n", ", -- next\n"}

EndingInputs == {"\n)", ",\n);\n"}

\* CREATE TABLE t ( lines ), as laid out.
LayoutText(layout) ==
    "CREATE TABLE t (\n"
    \o JoinWith(layout.separator, [i \in 1..Len(layout.lines) |-> LineText(layout.lines[i])])
    \o layout.ending

LayoutInputs ==
    {[lines |-> ls, separator |-> sep, ending |-> e] :
        ls \in UNION {[1..n -> LineInputs] : n \in 1..MaxLines},
        sep \in SeparatorInputs, e \in EndingInputs}

InitText ==
    /\ ImportOff /\ MapOff /\ DialectOff /\ ColumnOff
    /\ t_pc = "call"
    /\ t_lines \in LayoutInputs
    /\ t_sql = LayoutText(t_lines)
    /\ t_once = "" /\ t_twice = ""

PreprocessTeradataSql ==
    /\ t_pc = "call"
    /\ t_once' = preprocess_teradata_text(t_sql)
    /\ t_pc' = "once"
    /\ UNCHANGED <<t_lines, t_sql, t_twice, m_vars, d_vars, x_vars, c_vars, i_vars, h_vars>>

PreprocessTeradataSqlAgain ==
    /\ t_pc = "once"
    /\ t_twice' = preprocess_teradata_text(t_once)
    /\ t_pc' = "twice"
    /\ UNCHANGED <<t_lines, t_sql, t_once, m_vars, d_vars, x_vars, c_vars, i_vars, h_vars>>

NextText == PreprocessTeradataSql \/ PreprocessTeradataSqlAgain

SpecText == InitText /\ [][NextText]_vars

(***************************************************************************)
(* Properties of the Teradata preprocessing.                               *)
(***************************************************************************)
\* C24: the Teradata preprocessing passes a text through when there is
\* nothing to remove: a text in which the interval pattern matches nowhere
\* is returned unchanged, character for character.
C24_PassThrough ==
    (t_pc \in {"once", "twice"} /\ ~HasInterval(t_sql)) => t_once = t_sql

\* C25: the Teradata preprocessing is idempotent: applied to its own output
\* it returns that output unchanged.
C25_Idempotent ==
    t_pc = "twice" => t_twice = t_once

\* The column definitions of the text, in order.
RECURSIVE ColumnsOf(_)
ColumnsOf(lines) ==
    IF lines = <<>> THEN <<>> ELSE Head(lines).columns \o ColumnsOf(Tail(lines))

\* The column is an INTERVAL YEAR|DAY ... TO MONTH|SECOND column.
IsIntervalColumn(c) == StartsWith(Upper(c.type), "INTERVAL ")

\* The pattern `,\s*` + closer matches somewhere in the text.
CommaThen(s, closer) ==
    \E i \in 1..Len(s) :
        /\ CharAt(s, i) = ","
        /\ SkipIn(s, i + 1, SpaceChars) <= Len(s)
        /\ CharAt(s, SkipIn(s, i + 1, SpaceChars)) = closer

\* C26: interval removal leaves well-formed SQL.  For a CREATE TABLE whose
\* column definitions each stand on their own line, with one or more
\* interval columns in any position, the output contains nothing of the text
\* of an interval column (name, type, or what follows the type), contains
\* every other column definition verbatim, has no two commas separated only
\* by whitespace and no comma followed only by whitespace before a closing
\* parenthesis.
C26_IntervalRemovalWellFormed ==
    (/\ t_pc \in {"once", "twice"}
     /\ \A i \in 1..Len(t_lines.lines) : Len(t_lines.lines[i].columns) = 1
     /\ \E c \in Range(ColumnsOf(t_lines.lines)) : IsIntervalColumn(c)) =>
        /\ \A c \in Range(ColumnsOf(t_lines.lines)) :
              IF IsIntervalColumn(c)
              THEN /\ ~Contains(t_once, c.name)
                   /\ ~Contains(t_once, c.type)
                   /\ c.rest # "" => ~Contains(t_once, c.rest)
              ELSE Contains(t_once, ColumnText(c))
        /\ ~CommaThen(t_once, ",")
        /\ ~CommaThen(t_once, ")")

====
